---- MODULE Spec2Model ----
(***************************************************************************)
(* Model of the DeFi-Butler intent pipeline:                               *)
(*   - hooks/useIntent.ts   : useIntent (buildIntent / executeIntent /     *)
(*                            reset) and useQuickIntent.execute            *)
(*   - services/lifiService : getBestRoute, composeIntentWithDeposit,      *)
(*                            executeComposedIntent, executeRoute          *)
(*   - services/yieldService: fetchAllYields, queryYields, getBestYield,   *)
(*                            clearCache                                   *)
(*                                                                         *)
(* Every `await` of the source is a point where the call is suspended: the *)
(* part of a handler up to its first await is one action, each             *)
(* continuation is one action.  Calls may overlap, the hooks do not guard  *)
(* against it.  APYs are integers in basis points (apy * 10000), times are *)
(* milliseconds.                                                           *)
(***************************************************************************)
EXTENDS Integers, Sequences, FiniteSets, TLC

VARIABLES
    state,      \* useIntent: the IntentState held by useState
    calls,      \* calls issued so far on the hooks, with their locals and position
    log,        \* history: the calls made to the collaborators, by hook call
    events,     \* ExecutionStatus values delivered to onUpdate callbacks
    cause,      \* history: which failure branch set step to 'failed' last
    answer,     \* history: what the awaited call delivered in the last step
    quick,      \* useQuickIntent: isExecuting / error / lastExecution
    cache,      \* YieldService.cache: the entry under 'all-yields', or Null
    now,        \* Date.now()
    fetches,    \* the fetchAllYields calls, with their locals, position and result
    clears,     \* history: number of clearCache calls so far
    retry,      \* the withRetry call of fetchDefiLlamaYields that is followed in detail
    query,      \* the latest queryYields / getBestYield call, its position and result
    ens,        \* the latest ENSService.getProfile call, its position, lookups and result
    lifi,       \* the latest LiFiService.getRoutes call, its position and result
    applied,    \* the latest call of a synchronous service function: arguments, result
    origin      \* history: the buildIntent calls that set state.route / composedIntent

vars == <<state, calls, log, events, cause, answer, quick, cache, now, fetches, clears,
         retry, query, ens, lifi, applied, origin>>

intentVars == <<state, calls, log, events, cause, origin, answer>>
hookVars   == <<state, calls, log, events, cause, origin>>
quickVars  == <<quick>>
cacheVars  == <<cache, now, fetches, clears, retry>>
queryVars  == <<query>>
serviceVars == <<ens, lifi, applied>>

\* A value that may be null / undefined is a sequence of length 0 or 1.
Null == <<>>

Some(v) == <<v>>

Val(o) == o[1]

(***************************************************************************)
(* Bounds of the model                                                     *)
(***************************************************************************)
MaxCalls == 3

\* calls in flight at the same time
MaxInFlight == 2

MaxFetches == 2

MaxClears == 1

\* the clock advances in steps of TickMs up to MaxTime
TickMs == 100000

MaxTime == 400000

\* while a withRetry call is followed, the clock advances in steps of
\* RetryTickMs up to MaxRetryTime
RetryTickMs == 1000

MaxRetryTime == 4000

(***************************************************************************)
(* Strings: String.prototype.toUpperCase / toLowerCase on the symbols and  *)
(* slugs that occur in the model                                           *)
(***************************************************************************)
UpperOf == [s \in {"usdc", "Usdc", "USDC"} |-> "USDC"] @@
           [s \in {"dai", "DAI"} |-> "DAI"] @@
           [s \in {"foo", "FOO"} |-> "FOO"] @@
           [s \in {"weth", "WETH"} |-> "WETH"]

LowerOf == [s \in {"aave-v3", "Aave-V3", "AAVE-V3"} |-> "aave-v3"] @@
           [s \in {"pendle", "Pendle", "PENDLE"} |-> "pendle"] @@
           [s \in {"yearn-v3", "Yearn-V3"} |-> "yearn-v3"] @@
           [s \in {"compound-v3", "Compound-V3"} |-> "compound-v3"] @@
           [s \in {"arbitrum", "Arbitrum"} |-> "arbitrum"] @@
           [s \in {"base", "BASE"} |-> "base"] @@
           [s \in {"bob.eth", "Bob.ETH"} |-> "bob.eth"] @@
           [s \in {"bob.eth ", "Bob.ETH "} |-> "bob.eth "]

toUpperCase(s) == IF s \in DOMAIN UpperOf THEN UpperOf[s] ELSE s

toLowerCase(s) == IF s \in DOMAIN LowerOf THEN LowerOf[s] ELSE s

\* Array.prototype.includes
Includes(arr, x) == \E i \in 1..Len(arr) : arr[i] = x

\* xs.map((p) => p.toLowerCase())
MapToLowerCase(arr) == [i \in 1..Len(arr) |-> toLowerCase(arr[i])]

\* Array.prototype.slice(0, n)
Slice0(arr, n) == SubSeq(arr, 1, IF n < Len(arr) THEN n ELSE Len(arr))

(***************************************************************************)
(* types/index.ts                                                          *)
(***************************************************************************)
RISK_TOLERANCE_MAP ==
    [conservative |-> <<"aave-v3", "compound-v3", "morpho", "spark">>,
     moderate     |-> <<"aave-v3", "compound-v3", "morpho", "spark", "yearn-v3">>,
     aggressive   |-> <<"aave-v3", "compound-v3", "morpho", "spark", "yearn-v3",
                        "pendle", "silo">>]

\* The YieldOpportunity values the sources can produce in the model
\* (protocol name and risk level as PROTOCOL_METADATA gives them).
Opp(slug, name, chain, tok, apyBps, tvl, risk, vault) ==
    [protocolSlug |-> slug, protocol |-> name, chainId |-> chain, token |-> tok,
     apy |-> apyBps, tvlUsd |-> tvl, riskLevel |-> risk, vaultAddress |-> vault,
     depositFunction |-> Some("deposit"),
     depositParams |-> Some(<<"assets", "receiver">>)]

OppAave      == Opp("aave-v3", "Aave V3", 8453, "USDC", 500, 5000000, "low", "0xaa")
OppCompound  == Opp("compound-v3", "Compound V3", 8453, "usdc", 500, 1000000, "low", "0xcc")
OppYearn     == Opp("yearn-v3", "Yearn V3", 8453, "USDC", 700, 50000, "medium", "0xee")
OppPendle    == Opp("pendle", "Pendle", 8453, "USDC", 900, 2000000, "high", "0xff")
OppAaveOp    == Opp("aave-v3", "Aave V3", 10, "DAI", 300, 3000000, "low", "0xab")

(***************************************************************************)
(* services/yieldService.ts : sorting and querying                         *)
(***************************************************************************)
\* allYields.sort((a, b) => b.apy - a.apy): Array.prototype.sort is stable,
\* so equal APYs keep their concatenation order.
RECURSIVE InsertByApy(_, _)
InsertByApy(x, s) ==
    IF s = <<>> THEN <<x>>
    ELSE IF Head(s).apy >= x.apy THEN <<Head(s)>> \o InsertByApy(x, Tail(s))
    ELSE <<x>> \o s

\* Variant of SortByApyDesc: an opportunity already in the list is merged
RECURSIVE SortByApyDescDedup(_)
SortByApyDescDedup(l) ==
    IF l = <<>> THEN <<>>
    ELSE LET rest == SortByApyDescDedup(SubSeq(l, 1, Len(l) - 1))
         IN IF \E i \in 1..Len(rest) : rest[i] = l[Len(l)]
            THEN rest
            ELSE InsertByApy(l[Len(l)], rest)

RECURSIVE SortByApyDesc(_)
SortByApyDesc(l) ==
    IF l = <<>> THEN <<>>
    ELSE InsertByApy(l[Len(l)], SortByApyDesc(SubSeq(l, 1, Len(l) - 1)))

\* Variant of riskLevels: each tolerance admits one level only
riskLevelsExclusive ==
    [conservative |-> <<"low">>,
     moderate     |-> <<"medium">>,
     aggressive   |-> <<"high">>]

\* const riskLevels = { conservative: ['low'], ... }
riskLevels ==
    [conservative |-> <<"low">>,
     moderate     |-> <<"low", "medium">>,
     aggressive   |-> <<"low", "medium", "high">>]

\* riskLevels[params.riskTolerance] || ['low']
AllowedRiskLevels(tol) ==
    IF tol \in DOMAIN riskLevels THEN riskLevels[tol] ELSE <<"low">>

\* YieldQueryParams with every optional field undefined.  An undefined list
\* is the empty list: the code only tests `?.length`.
NoParams ==
    [chainId |-> Null, token |-> Null, minApy |-> Null, maxApy |-> Null,
     minTvlUsd |-> Null, riskTolerance |-> Null, whitelistedProtocols |-> <<>>,
     blacklistedProtocols |-> <<>>, limit |-> Null]

\* JavaScript truthiness of an optional number and of an optional string
TruthyNum(o) == o # Null /\ Val(o) # 0

TruthyStr(o) == o # Null /\ Val(o) # ""

\* params.xs?.length
HasLength(arr) == Len(arr) > 0

\* Variant of FilterChain: the opportunities of the chain, lowest APY first
FilterChainReversed(ys, p) ==
    IF TruthyNum(p.chainId)
    THEN LET kept == SelectSeq(ys, LAMBDA y : y.chainId = Val(p.chainId))
         IN [i \in 1..Len(kept) |-> kept[Len(kept) + 1 - i]]
    ELSE ys

\* queryYields applied to the list fetchAllYields returned
FilterChain(ys, p) ==
    IF TruthyNum(p.chainId)
    THEN SelectSeq(ys, LAMBDA y : y.chainId = Val(p.chainId))
    ELSE ys

FilterToken(ys, p) ==
    IF TruthyStr(p.token)
    THEN SelectSeq(ys, LAMBDA y : toUpperCase(y.token) = toUpperCase(Val(p.token)))
    ELSE ys

FilterMinApy(ys, p) ==
    IF p.minApy # Null THEN SelectSeq(ys, LAMBDA y : y.apy >= Val(p.minApy)) ELSE ys

FilterMaxApy(ys, p) ==
    IF p.maxApy # Null THEN SelectSeq(ys, LAMBDA y : y.apy <= Val(p.maxApy)) ELSE ys

FilterMinTvl(ys, p) ==
    IF p.minTvlUsd # Null THEN SelectSeq(ys, LAMBDA y : y.tvlUsd >= Val(p.minTvlUsd)) ELSE ys

FilterRisk(ys, p) ==
    IF TruthyStr(p.riskTolerance)
    THEN SelectSeq(ys, LAMBDA y :
             Includes(AllowedRiskLevels(Val(p.riskTolerance)), y.riskLevel))
    ELSE ys

FilterWhitelist(ys, p) ==
    IF HasLength(p.whitelistedProtocols)
    THEN SelectSeq(ys, LAMBDA y :
             Includes(MapToLowerCase(p.whitelistedProtocols), y.protocolSlug))
    ELSE ys

\* Variant of FilterBlacklist: a whitelisted protocol is never removed
FilterBlacklistAfterWhitelist(ys, p) ==
    IF HasLength(p.blacklistedProtocols)
    THEN SelectSeq(ys, LAMBDA y :
             \/ ~Includes(MapToLowerCase(p.blacklistedProtocols), y.protocolSlug)
             \/ Includes(MapToLowerCase(p.whitelistedProtocols), y.protocolSlug))
    ELSE ys

FilterBlacklist(ys, p) ==
    IF HasLength(p.blacklistedProtocols)
    THEN SelectSeq(ys, LAMBDA y :
             ~Includes(MapToLowerCase(p.blacklistedProtocols), y.protocolSlug))
    ELSE ys

ApplyLimit(ys, p) ==
    IF TruthyNum(p.limit) THEN Slice0(ys, Val(p.limit)) ELSE ys

QueryYields(all, p) ==
    ApplyLimit(
      FilterBlacklist(
        FilterWhitelist(
          FilterRisk(
            FilterMinTvl(
              FilterMaxApy(
                FilterMinApy(
                  FilterToken(
                    FilterChain(all, p), p), p), p), p), p), p), p), p)

\* getBestYield: queryYields with limit 1, then yields[0] || null.
\* chainId and token are required, riskTolerance and minTvlUsd optional.
GetBestYield(all, chainId, token, riskTolerance, minTvlUsd) ==
    LET yields == QueryYields(all,
                     [NoParams EXCEPT !.chainId = Some(chainId),
                                      !.token = Some(token),
                                      !.riskTolerance = riskTolerance,
                                      !.minTvlUsd = minTvlUsd,
                                      !.limit = Some(1)])
    IN IF Len(yields) > 0 THEN Some(yields[1]) ELSE Null

(***************************************************************************)
(* What the collaborators can answer                                       *)
(***************************************************************************)
\* The result of awaiting a promise: a value, or a thrown value.
Return(v) == [ok |-> TRUE, value |-> v, error |-> Null]

Throw(e) == [ok |-> FALSE, value |-> Null, error |-> Some(e)]

\* A thrown value is an Error with a message, or something else.
Err(m) == [isError |-> TRUE, message |-> m]

NonError == [isError |-> FALSE, message |-> ""]

\* error instanceof Error ? error.message : fallback
ErrMessage(e, fallback) == IF e.isError THEN e.message ELSE fallback

ProviderErrors == {Err("Network request failed"), NonError}

ExecuteErrors == {Err("User rejected the request"), NonError}

\* What the yield sources deliver, already mapped to YieldOpportunity
DefiLlamaResults ==
    {<<>>, <<OppCompound, OppAave>>, <<OppAave, OppPendle, OppAaveOp>>}

YearnResults == {<<>>, <<OppYearn>>}

\* The lists fetchAllYields can return: concatenation, then sort
FetchAllResults ==
    {SortByApyDesc(d \o y) : d \in DefiLlamaResults, y \in YearnResults}

(***************************************************************************)
(* The requests and preferences the caller passes                          *)
(***************************************************************************)
Req(fromTok, toCh, toTok) ==
    [fromChain |-> 42161, fromToken |-> fromTok, fromAmount |-> "100",
     toChain |-> toCh, toToken |-> toTok, userAddress |-> "0xuser"]

ReqBase == Req("USDC", 8453, "usdc")

ReqUnmapped == Req("FOO", 8453, "USDC")

Pref(risk, minLiq, white, black) ==
    [riskTolerance |-> risk, minLiquidityUsd |-> minLiq, maxSlippageBps |-> 100,
     whitelistedProtocols |-> white, blacklistedProtocols |-> black]

PrefModerate == Pref("moderate", 100000, <<>>, <<>>)

PrefNoPendle == Pref("aggressive", 0, <<>>, <<"pendle">>)

\* The (request, preferences) pairs the caller builds intents with
BuildInputs == {<<ReqBase, PrefNoPendle>>, <<ReqUnmapped, PrefModerate>>}

(***************************************************************************)
(* services/lifiService.ts                                                 *)
(***************************************************************************)
\* TOKEN_ADDRESSES: the symbols that have an address on each chain
TOKEN_ADDRESSES ==
    (1 :> {"USDC", "USDT", "DAI", "WETH", "WBTC"}) @@
    (42161 :> {"USDC", "USDT", "DAI", "WETH"}) @@
    (8453 :> {"USDC", "USDT", "DAI", "WETH"}) @@
    (10 :> {"USDC", "USDT", "DAI", "WETH"})

\* TOKEN_ADDRESSES[chain]?.[token.toUpperCase()] is defined
HasTokenAddress(chain, token) ==
    chain \in DOMAIN TOKEN_ADDRESSES /\ toUpperCase(token) \in TOKEN_ADDRESSES[chain]

\* Variant of RouteInputValid: only the source token is looked up
RouteInputValidSourceOnly(req) ==
    HasTokenAddress(req.fromChain, req.fromToken)

\* getBestRoute sends a request to the routing service only past this check
RouteInputValid(req) ==
    HasTokenAddress(req.fromChain, req.fromToken) /\ HasTokenAddress(req.toChain, req.toToken)

TokenNotSupportedMsg(req) ==
    "Token not supported on one of the chains: " \o req.fromToken \o " -> " \o req.toToken

\* A Route of the routing service, opaque but for the request it answers
Route(n, req) == [id |-> n, fromChainId |-> req.fromChain, toChainId |-> req.toChain,
                  toToken |-> toUpperCase(req.toToken)]

\* response.routes, in the provider's order
RouteResponses(req) ==
    {<<>>, <<Route(1, req)>>, <<Route(2, req), Route(1, req)>>}

\* getBestRoute: what awaiting it yields
GetBestRoute(req) ==
    IF ~RouteInputValid(req)
    THEN {Throw(Err(TokenNotSupportedMsg(req)))}
    ELSE {IF Len(routes) = 0 THEN Return(Null) ELSE Return(Some(routes[1]))
            : routes \in RouteResponses(req)}
         \cup {Throw(e) : e \in ProviderErrors}

\* Variant of ComposeIntentWithDeposit: the deposit function is always 'deposit'
ComposeIntentWithDepositFixed(request, targetYield) ==
    [targetVault |->
        [address |-> targetYield.vaultAddress,
         protocol |-> targetYield.protocol,
         depositFunction |-> "deposit",
         depositParams |-> IF targetYield.depositParams # Null
                           THEN Val(targetYield.depositParams)
                           ELSE <<request.fromAmount, request.userAddress>>],
     expectedApy |-> targetYield.apy,
     totalSteps |-> 2,
     estimatedGasUsd |-> 0] @@ request

\* composeIntentWithDeposit: { ...request, targetVault, expectedApy, ... }
ComposeIntentWithDeposit(request, targetYield) ==
    [targetVault |->
        [address |-> targetYield.vaultAddress,
         protocol |-> targetYield.protocol,
         depositFunction |-> IF TruthyStr(targetYield.depositFunction)
                             THEN Val(targetYield.depositFunction) ELSE "deposit",
         depositParams |-> IF targetYield.depositParams # Null
                           THEN Val(targetYield.depositParams)
                           ELSE <<request.fromAmount, request.userAddress>>],
     expectedApy |-> targetYield.apy,
     totalSteps |-> 2,
     estimatedGasUsd |-> 0] @@ request

\* executeRoute: onUpdate?.(status) delivers an event only if a callback was passed
Emit(evs, hasCallback, ev) == IF hasCallback THEN Append(evs, ev) ELSE evs

\* executeComposedIntent calls executeRoute(route) without a callback
ExecuteComposedIntentHasCallback == FALSE

\* Variant of ExecuteComposedIntent: the record reports a failed execution
ExecuteComposedIntentFailed(composedIntent, route, startedAt, id) ==
    [id |-> id, intent |-> composedIntent, route |-> route, steps |-> <<>>,
     status |-> "failed", error |-> Null,
     createdAt |-> startedAt, updatedAt |-> startedAt]

\* executeComposedIntent: the record it returns once executeRoute returned
ExecuteComposedIntent(composedIntent, route, startedAt, id) ==
    [id |-> id, intent |-> composedIntent, route |-> route, steps |-> <<>>,
     status |-> "completed", error |-> Null,
     createdAt |-> startedAt, updatedAt |-> startedAt]

\* Math.random().toString(36).substring(7)
ExecutionIds == {"k3x9", "q7m2"}

\* the SDK's executeRoute: it returns the executed route, or raises
ExecuteRouteOutcomes == {Return(Null)} \cup {Throw(e) : e \in ExecuteErrors}

\* yieldService.getBestYield: what awaiting it yields (a failed fetchAllYields
\* propagates through queryYields and getBestYield)
GetBestYieldOutcomes(chainId, token, riskTolerance, minTvlUsd) ==
    {Return(GetBestYield(all, chainId, token, riskTolerance, minTvlUsd))
        : all \in FetchAllResults}
    \cup {Throw(e) : e \in ProviderErrors}

(***************************************************************************)
(* hooks/useIntent.ts : useIntent                                          *)
(***************************************************************************)
\* route and composedIntent are null: no call has set them
NoOrigin == [route |-> 0, composedIntent |-> 0]

initialState ==
    [step |-> "input", route |-> Null, targetYield |-> Null,
     composedIntent |-> Null, execution |-> Null, error |-> Null]

NoRouteMsg == "No route found for this intent"

NoYieldMsg ==
    "No yield opportunities found matching your criteria on the destination chain"

BlacklistedMsg(protocol) ==
    "The best yield opportunity is from " \o protocol \o ", which is in your blacklist"

NoIntentMsg == "No intent to execute"

BuildFallbackMsg == "Failed to build intent"

ExecFallbackMsg == "Execution failed"

\* Variant of NoRoute: the null check on the route is left out
NoRouteUnchecked(route) == FALSE

\* if (!route)
NoRoute(route) == route = Null

\* if (!targetYield)
NoYield(targetYield) == targetYield = Null

\* Variant of IsBlacklisted: the blacklist is not consulted
IsBlacklistedUnchecked(prefs, targetYield) == FALSE

\* preferences.blacklistedProtocols.includes(targetYield.protocolSlug)
IsBlacklisted(prefs, targetYield) ==
    Includes(prefs.blacklistedProtocols, targetYield.protocolSlug)

\* Variant of ExecGuardFails: && written for ||
ExecGuardFailsBoth(s) == s.route = Null /\ s.composedIntent = Null

\* !route || !composedIntent
ExecGuardFails(s) == s.route = Null \/ s.composedIntent = Null

\* A call on a hook: its arguments, its locals and where it is suspended.
\* wrote is the sequence of steps the call has set so far.
NewCall(kind, pc, req, prefs, wrote) ==
    [kind |-> kind, pc |-> pc, request |-> req, prefs |-> prefs,
     route |-> Null, targetYield |-> Null, composedIntent |-> Null,
     startedAt |-> now, wrote |-> wrote]

\* A call that has returned: its arguments and locals are gone
Returned(call, step) ==
    [NewCall(call.kind, "done", Null, Null, Append(call.wrote, step))
        EXCEPT !.startedAt = call.startedAt]

Logged(op, c) == [op |-> op, call |-> c]

\* the caller may issue one more call
MayCall ==
    /\ Len(calls) < MaxCalls
    /\ Cardinality({c \in 1..Len(calls) : calls[c].pc # "done"}) < MaxInFlight

\* the catch block of buildIntent
BuildFailed(c, msg, why) ==
    /\ state' = [state EXCEPT !.step = "failed", !.error = Some(msg)]
    /\ calls' = [calls EXCEPT ![c] = Returned(@, "failed")]
    /\ cause' = why
    /\ UNCHANGED <<log, events, origin>>

\* buildIntent up to `await lifiService.getBestRoute(request)`
BuildIntent(req, prefs) ==
    /\ MayCall
    /\ state' = [state EXCEPT !.step = "fetching-route", !.error = Null]
    /\ calls' = Append(calls,
                   NewCall("build", "route", Some(req), Some(prefs), <<"fetching-route">>))
    /\ log' = IF RouteInputValid(req)
              THEN log \cup {Logged("getRoutes", Len(calls) + 1)}
              ELSE log
    /\ cause' = "none"
    /\ answer' = Null
    /\ UNCHANGED <<events, origin, quickVars, cacheVars, queryVars, serviceVars>>

\* buildIntent from the route to `await yieldService.getBestYield(...)`
BuildRouteSettled(c) ==
    /\ c \in 1..Len(calls)
    /\ calls[c].kind = "build" /\ calls[c].pc = "route"
    /\ \E out \in GetBestRoute(Val(calls[c].request)) :
          /\ answer' = Some(out)
          /\ IF ~out.ok
             THEN BuildFailed(c, ErrMessage(Val(out.error), BuildFallbackMsg),
                              "route-raised")
             ELSE IF NoRoute(out.value)
             THEN BuildFailed(c, NoRouteMsg, "no-route")
             ELSE /\ state' = [state EXCEPT !.route = out.value,
                                            !.step = "finding-yield"]
                  /\ calls' = [calls EXCEPT ![c].pc = "yield",
                                            ![c].route = out.value,
                                            ![c].wrote = Append(@, "finding-yield")]
                  /\ log' = log \cup {Logged("getBestYield", c)}
                  /\ cause' = "none"
                  /\ origin' = [origin EXCEPT !.route = c]
                  /\ UNCHANGED events
    /\ UNCHANGED <<quickVars, cacheVars, queryVars, serviceVars>>

\* buildIntent from the yield to `await lifiService.composeIntentWithDeposit(...)`
BuildYieldSettled(c) ==
    /\ c \in 1..Len(calls)
    /\ calls[c].kind = "build" /\ calls[c].pc = "yield"
    /\ LET req == Val(calls[c].request)
           prefs == Val(calls[c].prefs)
       IN \E out \in GetBestYieldOutcomes(req.toChain, req.toToken,
                        Some(prefs.riskTolerance), Some(prefs.minLiquidityUsd)) :
          /\ answer' = Some(out)
          /\ IF ~out.ok
             THEN BuildFailed(c, ErrMessage(Val(out.error), BuildFallbackMsg),
                              "yield-raised")
             ELSE IF NoYield(out.value)
             THEN BuildFailed(c, NoYieldMsg, "no-yield")
             ELSE IF IsBlacklisted(prefs, Val(out.value))
             THEN BuildFailed(c, BlacklistedMsg(Val(out.value).protocol), "blacklisted")
             ELSE /\ state' = [state EXCEPT !.targetYield = out.value,
                                            !.step = "composing"]
                  /\ calls' = [calls EXCEPT ![c].pc = "compose",
                                            ![c].targetYield = out.value,
                                            ![c].wrote = Append(@, "composing")]
                  /\ log' = log \cup {Logged("compose", c)}
                  /\ cause' = "none"
                  /\ UNCHANGED <<events, origin>>
    /\ UNCHANGED <<quickVars, cacheVars, queryVars, serviceVars>>

\* buildIntent from the composed intent to its end
BuildComposed(c) ==
    /\ c \in 1..Len(calls)
    /\ calls[c].kind = "build" /\ calls[c].pc = "compose"
    /\ LET composedIntent == ComposeIntentWithDeposit(Val(calls[c].request),
                                                      Val(calls[c].targetYield))
       IN /\ state' = [state EXCEPT !.composedIntent = Some(composedIntent),
                                    !.step = "ready"]
          /\ calls' = [calls EXCEPT ![c] = Returned(@, "ready")]
          /\ answer' = Some(Return(Some(composedIntent)))
    /\ cause' = "none"
    /\ origin' = [origin EXCEPT !.composedIntent = c]
    /\ UNCHANGED <<log, events, quickVars, cacheVars, queryVars, serviceVars>>

\* executeIntent up to `await lifiService.executeComposedIntent(...)`; the
\* callback is recreated on every state change, so it reads the current state
ExecuteIntent ==
    /\ MayCall
    /\ IF ExecGuardFails(state)
       THEN /\ state' = [state EXCEPT !.step = "failed", !.error = Some(NoIntentMsg)]
            /\ calls' = Append(calls, NewCall("exec", "done", Null, Null, <<"failed">>))
            /\ cause' = "nothing-to-execute"
            /\ UNCHANGED <<log, events>>
       ELSE /\ state' = [state EXCEPT !.step = "executing", !.error = Null]
            /\ calls' = Append(calls,
                   [NewCall("exec", "exec", Null, Null, <<"executing">>)
                       EXCEPT !.route = state.route,
                              !.composedIntent = state.composedIntent])
            /\ log' = log \cup {Logged("executeRoute", Len(calls) + 1)}
            /\ events' = Emit(events, ExecuteComposedIntentHasCallback, "loading")
            /\ cause' = "none"
    /\ answer' = Null
    /\ UNCHANGED <<origin, quickVars, cacheVars, queryVars, serviceVars>>

\* executeIntent from the settled execution call to its end
ExecuteSettled(c) ==
    /\ c \in 1..Len(calls)
    /\ calls[c].kind = "exec" /\ calls[c].pc = "exec"
    /\ \E out \in ExecuteRouteOutcomes, id \in ExecutionIds :
          /\ answer' = Some(out)
          /\ IF out.ok
             THEN LET execution == ExecuteComposedIntent(Val(calls[c].composedIntent),
                                       Val(calls[c].route), calls[c].startedAt, id)
                      step == IF execution.status = "completed"
                              THEN "completed" ELSE "failed"
                  IN /\ state' = [state EXCEPT !.execution = Some(execution),
                                               !.step = step]
                     /\ calls' = [calls EXCEPT ![c] = Returned(@, step)]
                     /\ events' = Emit(events, ExecuteComposedIntentHasCallback, "success")
                     /\ cause' = IF step = "failed" THEN "execution-not-completed" ELSE "none"
             ELSE /\ state' = [state EXCEPT !.step = "failed",
                                  !.error = Some(ErrMessage(Val(out.error), ExecFallbackMsg))]
                  /\ calls' = [calls EXCEPT ![c] = Returned(@, "failed")]
                  /\ events' = Emit(events, ExecuteComposedIntentHasCallback, "error")
                  /\ cause' = "execution-raised"
    /\ UNCHANGED <<log, origin, quickVars, cacheVars, queryVars, serviceVars>>

\* reset: setState(initialState); calls in flight are not touched
Reset ==
    /\ state # initialState
    /\ state' = initialState
    /\ origin' = NoOrigin
    /\ cause' = "none"
    /\ answer' = Null
    /\ UNCHANGED <<calls, log, events, quickVars, cacheVars, queryVars, serviceVars>>

\* canExecute and isProcessing, derived on every render
canExecute == state.step = "ready" /\ state.composedIntent # Null /\ state.route # Null

isProcessing ==
    state.step \in {"fetching-route", "finding-yield", "composing", "executing"}

(***************************************************************************)
(* hooks/useIntent.ts : useQuickIntent                                     *)
(***************************************************************************)
NoRouteQuickMsg == "No route found"

NoYieldQuickMsg == "No yield opportunities found"

\* the IntentRequest execute builds from its parameters; slippage is
\* preferences.maxSlippageBps / 10000, kept here in units of 1/10000
QuickRequest(params, preferences) ==
    [slippage |-> preferences.maxSlippageBps] @@ params

\* catch: setError(...); throw err;  finally: setIsExecuting(false)
QuickFailed(c, e) ==
    /\ quick' = [quick EXCEPT !.error = Some(ErrMessage(e, ExecFallbackMsg)),
                              !.isExecuting = FALSE]
    /\ calls' = [calls EXCEPT ![c] = Returned(@, "rejected")]
    /\ UNCHANGED log

\* execute up to `await lifiService.getBestRoute(request)`
QuickExecute(params, prefs) ==
    /\ MayCall
    /\ quick' = [quick EXCEPT !.isExecuting = TRUE, !.error = Null]
    /\ calls' = Append(calls,
                   NewCall("quick", "route", Some(QuickRequest(params, prefs)),
                           Some(prefs), <<>>))
    /\ log' = IF RouteInputValid(params)
              THEN log \cup {Logged("getRoutes", Len(calls) + 1)}
              ELSE log
    /\ answer' = Null
    /\ UNCHANGED <<state, origin, events, cause, cacheVars, queryVars, serviceVars>>

\* execute from the route to `await yieldService.getBestYield(...)`
QuickRouteSettled(c) ==
    /\ c \in 1..Len(calls)
    /\ calls[c].kind = "quick" /\ calls[c].pc = "route"
    /\ \E out \in GetBestRoute(Val(calls[c].request)) :
          /\ answer' = Some(out)
          /\ IF ~out.ok
             THEN QuickFailed(c, Val(out.error))
             ELSE IF NoRoute(out.value)
             THEN QuickFailed(c, Err(NoRouteQuickMsg))
             ELSE /\ calls' = [calls EXCEPT ![c].pc = "yield", ![c].route = out.value]
                  /\ log' = log \cup {Logged("getBestYield", c)}
                  /\ UNCHANGED quick
    /\ UNCHANGED <<state, origin, events, cause, cacheVars, queryVars, serviceVars>>

\* execute from the yield to `await lifiService.composeIntentWithDeposit(...)`
QuickYieldSettled(c) ==
    /\ c \in 1..Len(calls)
    /\ calls[c].kind = "quick" /\ calls[c].pc = "yield"
    /\ LET req == Val(calls[c].request)
           prefs == Val(calls[c].prefs)
       IN \E out \in GetBestYieldOutcomes(req.toChain, req.toToken,
                        Some(prefs.riskTolerance), Some(prefs.minLiquidityUsd)) :
          /\ answer' = Some(out)
          /\ IF ~out.ok
             THEN QuickFailed(c, Val(out.error))
             ELSE IF NoYield(out.value)
             THEN QuickFailed(c, Err(NoYieldQuickMsg))
             ELSE /\ calls' = [calls EXCEPT ![c].pc = "compose",
                                            ![c].targetYield = out.value]
                  /\ log' = log \cup {Logged("compose", c)}
                  /\ UNCHANGED quick
    /\ UNCHANGED <<state, origin, events, cause, cacheVars, queryVars, serviceVars>>

\* execute from the composed intent to `await lifiService.executeComposedIntent(...)`
QuickComposed(c) ==
    /\ c \in 1..Len(calls)
    /\ calls[c].kind = "quick" /\ calls[c].pc = "compose"
    /\ LET composedIntent == ComposeIntentWithDeposit(Val(calls[c].request),
                                                      Val(calls[c].targetYield))
       IN /\ calls' = [calls EXCEPT ![c].pc = "exec",
                                    ![c].composedIntent = Some(composedIntent),
                                    ![c].startedAt = now]
          /\ answer' = Some(Return(Some(composedIntent)))
    /\ log' = log \cup {Logged("executeRoute", c)}
    /\ events' = Emit(events, ExecuteComposedIntentHasCallback, "loading")
    /\ UNCHANGED <<state, origin, cause, quick, cacheVars, queryVars, serviceVars>>

\* execute from the settled execution call to its end
QuickExecuteSettled(c) ==
    /\ c \in 1..Len(calls)
    /\ calls[c].kind = "quick" /\ calls[c].pc = "exec"
    /\ \E out \in ExecuteRouteOutcomes, id \in ExecutionIds :
          /\ answer' = Some(out)
          /\ IF out.ok
             THEN LET execution == ExecuteComposedIntent(Val(calls[c].composedIntent),
                                       Val(calls[c].route), calls[c].startedAt, id)
                  IN /\ quick' = [quick EXCEPT !.lastExecution = Some(execution),
                                               !.isExecuting = FALSE]
                     /\ calls' = [calls EXCEPT ![c] = Returned(@, "resolved")]
                     /\ events' = Emit(events, ExecuteComposedIntentHasCallback, "success")
                     /\ UNCHANGED log
             ELSE /\ QuickFailed(c, Val(out.error))
                  /\ events' = Emit(events, ExecuteComposedIntentHasCallback, "error")
    /\ UNCHANGED <<state, origin, cause, cacheVars, queryVars, serviceVars>>

\* The (parameters, preferences) pairs the caller passes to execute
QuickInputs == {<<ReqBase, PrefNoPendle>>, <<ReqUnmapped, PrefModerate>>}

\* no queryYields / getBestYield call made yet
QueryIdle ==
    [pc |-> "idle", kind |-> "none", fetch |-> 0, params |-> NoParams,
     result |-> Null, best |-> Null]

\* no getProfile call made yet
EnsIdle ==
    [pc |-> "idle", hook |-> FALSE, input |-> "", name |-> "", address |-> Null,
     records |-> Null, followedRecords |-> Null, lookups |-> <<>>,
     profile |-> Null, raised |-> Null, error |-> Null, found |-> Null]

\* no synchronous service function called yet
NotApplied == [fn |-> "none", args |-> <<>>, result |-> Null]

\* no getRoutes call made yet
LifiIdle ==
    [pc |-> "idle", request |-> Null, sent |-> FALSE, response |-> Null,
     quote |-> Null, error |-> Null,
     run |-> "none", route |-> Null, updates |-> <<>>, raised |-> Null]

\* No withRetry call is followed
RetryIdle ==
    [pc |-> "idle", call |-> 0, attempt |-> 0, invocations |-> 0, failedAt |-> 0,
     wakeAt |-> 0, errors |-> <<>>, value |-> Null]

Init ==
    /\ state = initialState
    /\ calls = <<>>
    /\ log = {}
    /\ events = <<>>
    /\ cause = "none"
    /\ answer = Null
    /\ quick = [isExecuting |-> FALSE, error |-> Null, lastExecution |-> Null]
    /\ cache = Null
    /\ now = 0
    /\ fetches = <<>>
    /\ clears = 0
    /\ retry = RetryIdle
    /\ query = QueryIdle
    /\ ens = EnsIdle
    /\ lifi = LifiIdle
    /\ applied = NotApplied
    /\ origin = NoOrigin

Next ==
    \/ \E in \in BuildInputs : BuildIntent(in[1], in[2])
    \/ \E c \in 1..MaxCalls : BuildRouteSettled(c)
    \/ \E c \in 1..MaxCalls : BuildYieldSettled(c)
    \/ \E c \in 1..MaxCalls : BuildComposed(c)
    \/ ExecuteIntent
    \/ \E c \in 1..MaxCalls : ExecuteSettled(c)
    \/ Reset

Spec == Init /\ [][Next]_vars

NextQuick ==
    \/ \E in \in QuickInputs : QuickExecute(in[1], in[2])
    \/ \E c \in 1..MaxCalls : QuickRouteSettled(c)
    \/ \E c \in 1..MaxCalls : QuickYieldSettled(c)
    \/ \E c \in 1..MaxCalls : QuickComposed(c)
    \/ \E c \in 1..MaxCalls : QuickExecuteSettled(c)

SpecQuick == Init /\ [][NextQuick]_vars

(***************************************************************************)
(* services/yieldService.ts : the cache and fetchAllYields                 *)
(***************************************************************************)
\* Variant of CACHE_TTL: the factor 1000 is forgotten
CACHE_TTL_Seconds == 5 * 60

CACHE_TTL == 5 * 60 * 1000

\* Variant of IsFresh: <= written for <
IsFreshInclusive(cached, t) ==
    cached # Null /\ t - Val(cached).timestamp <= CACHE_TTL

\* cached && Date.now() - cached.timestamp < this.CACHE_TTL
IsFresh(cached, t) ==
    cached # Null /\ t - Val(cached).timestamp < CACHE_TTL

\* fetchDefiLlamaYields: the mapped pools, or the error withRetry re-raises
DefiLlamaErrors == {Err("DefiLlama API error: 500")}

\* DefiLlama lists Yearn's pools too: the same vault can come from both sources
DefiLlamaPools == (DefiLlamaResults \ {<<>>}) \cup {<<OppYearn>>}

DefiLlamaOutcomes ==
    {Return(l) : l \in DefiLlamaResults \ {<<>>}} \cup {Throw(e) : e \in DefiLlamaErrors}

\* source.chains of the 'yearn' source, in the order fetchYearnYields visits them
YEARN_CHAINS == <<1, 10, 137, 42161, 8453>>

\* A vault as the Yearn API lists it
Vault(type, kind, symbol, address, netApy, tvl) ==
    [type |-> type, kind |-> kind, symbol |-> symbol, address |-> address,
     apy |-> netApy, tvl |-> tvl]

VaultUsdc == Vault("v3", "Vault", "USDC", "0xee", 700, 50000)
VaultDai  == Vault("v3", "Vault", "DAI", "0xdd", 400, 80000)
VaultV2   == Vault("v2", "Vault", "USDC", "0xe2", 800, 90000)

\* What one request `${baseUrl}/${chainId}/vaults/all` can come to: fetch
\* rejects, the response is not ok, or the response lists vaults
YearnRejected == [thrown |-> TRUE, ok |-> FALSE, vaults |-> <<>>]

YearnNotOk == [thrown |-> FALSE, ok |-> FALSE, vaults |-> <<>>]

YearnOk(vaults) == [thrown |-> FALSE, ok |-> TRUE, vaults |-> vaults]

\* opportunities.push({...}) for the vaults of type v3 and kind Vault
YearnOpp(chainId, vault) ==
    Opp("yearn-v3", "Yearn V3", chainId, vault.symbol, vault.apy, vault.tvl,
        "medium", vault.address)

\* one iteration of the loop over source.chains: what it pushes
YearnChainYields(chainId, response) ==
    IF response.thrown \/ ~response.ok
    THEN <<>>
    ELSE LET kept == SelectSeq(response.vaults,
                               LAMBDA v : v.type = "v3" /\ v.kind = "Vault")
         IN [i \in 1..Len(kept) |-> YearnOpp(chainId, kept[i])]

\* Variant of FetchYearnFrom: one try / catch around the whole loop
RECURSIVE FetchYearnFromAbort(_, _)
FetchYearnFromAbort(i, responses) ==
    IF i > Len(YEARN_CHAINS) THEN <<>>
    ELSE IF responses[YEARN_CHAINS[i]].thrown THEN <<>>
    ELSE YearnChainYields(YEARN_CHAINS[i], responses[YEARN_CHAINS[i]])
            \o FetchYearnFromAbort(i + 1, responses)

\* fetchYearnYields: the chains in order, each in its own try / catch
RECURSIVE FetchYearnFrom(_, _)
FetchYearnFrom(i, responses) ==
    IF i > Len(YEARN_CHAINS) THEN <<>>
    ELSE YearnChainYields(YEARN_CHAINS[i], responses[YEARN_CHAINS[i]])
            \o FetchYearnFrom(i + 1, responses)

FetchYearnYields(responses) == FetchYearnFrom(1, responses)

\* The responses of the Yearn API to one fetchYearnYields, by chain
YearnResponses(mainnet, optimism, base) ==
    (1 :> mainnet) @@ (10 :> optimism) @@ (137 :> YearnOk(<<>>)) @@
    (42161 :> YearnOk(<<>>)) @@ (8453 :> base)

YearnAnswers ==
    {YearnResponses(YearnOk(<<>>), YearnOk(<<>>), YearnOk(<<VaultUsdc>>)),
     YearnResponses(YearnRejected, YearnOk(<<VaultDai>>), YearnOk(<<VaultV2, VaultUsdc>>)),
     YearnResponses(YearnOk(<<>>), YearnOk(<<VaultDai>>), YearnNotOk),
     YearnResponses(YearnRejected, YearnNotOk, YearnRejected)}

\* those of them that come to one of YearnResults
YearnAnswersToResults == {a \in YearnAnswers : FetchYearnYields(a) \in YearnResults}

\* Promise.all([...]) evaluates both fetchers: each sends its first request
\* before fetchAllYields is suspended
FirstRequests == 2

\* A fetchAllYields call; cached is its local, entry names the cache entry
\* whose list it returned (by the call that wrote the entry, 0 for none),
\* retries counts the retried DefiLlama requests of a call followed in detail
NewFetch(pc, cached, result, requests, entry) ==
    [pc |-> pc, startedAt |-> now, epoch |-> clears, cached |-> cached,
     result |-> result, requests |-> requests, entry |-> entry, error |-> Null,
     retries |-> 0]

\* fetchAllYields up to `await Promise.all([...])`, or to its return on a hit
FetchAllStart ==
    /\ Len(fetches) < MaxFetches
    /\ LET cached == cache
       IN IF IsFresh(cached, now)
          THEN fetches' = Append(fetches,
                   NewFetch("done", cached, Some(Val(cached).data), 0,
                            Val(cached).writer))
          ELSE fetches' = Append(fetches,
                   NewFetch("fetching", cached, Null, FirstRequests, 0))
    /\ answer' = Null
    /\ UNCHANGED <<cache, now, clears, hookVars, quickVars>>

\* a fetchAllYields call whose fetchers are not followed step by step
FetchAllYields == FetchAllStart /\ UNCHANGED <<retry, queryVars, serviceVars>>

\* Variant of Settle: the cache is written only when it holds no entry
SettleFirstWriterWins(c, defiLlama, yearnYields) ==
    IF defiLlama.ok
    THEN LET allYields == SortByApyDesc(defiLlama.value \o yearnYields)
         IN /\ cache' = IF cache = Null
                         THEN Some([data |-> allYields, timestamp |-> now, writer |-> c])
                         ELSE cache
            /\ fetches' = [fetches EXCEPT ![c].pc = "done",
                                          ![c].result = Some(allYields),
                                          ![c].entry = c]
    ELSE /\ fetches' = [fetches EXCEPT ![c].pc = "failed",
                                       ![c].error = defiLlama.error]
         /\ UNCHANGED cache

\* Variant of Settle: a failed call stores what Yearn returned
SettleStoresPartial(c, defiLlama, yearnYields) ==
    IF defiLlama.ok
    THEN LET allYields == SortByApyDesc(defiLlama.value \o yearnYields)
         IN /\ cache' = Some([data |-> allYields, timestamp |-> now, writer |-> c])
            /\ fetches' = [fetches EXCEPT ![c].pc = "done",
                                          ![c].result = Some(allYields),
                                          ![c].entry = c]
    ELSE /\ fetches' = [fetches EXCEPT ![c].pc = "failed",
                                       ![c].error = defiLlama.error]
         /\ cache' = Some([data |-> yearnYields, timestamp |-> now, writer |-> c])

\* fetchAllYields from the settled Promise.all to its end: Promise.all
\* rejects with DefiLlama's error, fetchYearnYields never rejects
Settle(c, defiLlama, yearnYields) ==
    IF defiLlama.ok
    THEN LET allYields == SortByApyDesc(defiLlama.value \o yearnYields)
         IN /\ cache' = Some([data |-> allYields, timestamp |-> now, writer |-> c])
            /\ fetches' = [fetches EXCEPT ![c].pc = "done",
                                          ![c].result = Some(allYields),
                                          ![c].entry = c]
    ELSE /\ fetches' = [fetches EXCEPT ![c].pc = "failed",
                                       ![c].error = defiLlama.error]
         /\ UNCHANGED cache

\* the sources have answered the call c
FetchAllResume(c) ==
    /\ c \in 1..Len(fetches)
    /\ fetches[c].pc = "fetching"
    /\ \E defiLlama \in DefiLlamaOutcomes, yearn \in YearnAnswersToResults :
          /\ Settle(c, defiLlama, FetchYearnYields(yearn))
          /\ answer' = Some([defiLlama |-> defiLlama, yearn |-> yearn])
    /\ UNCHANGED <<now, clears, retry, hookVars, quickVars>>

\* the continuation of a fetchAllYields call that no query is waiting for
FetchAllSettled(c) == FetchAllResume(c) /\ UNCHANGED <<queryVars, serviceVars>>

\* clearCache: this.cache.clear()
ClearCache ==
    /\ clears < MaxClears
    /\ cache' = Null
    /\ clears' = clears + 1
    /\ answer' = Null
    /\ UNCHANGED <<now, fetches, retry, hookVars, quickVars, queryVars, serviceVars>>

\* time passes
Tick ==
    /\ now + TickMs <= MaxTime
    /\ now' = now + TickMs
    /\ answer' = Null
    /\ UNCHANGED <<cache, fetches, clears, retry, hookVars, quickVars, queryVars, serviceVars>>

NextCache ==
    \/ FetchAllYields
    \/ \E c \in 1..MaxFetches : FetchAllSettled(c)
    \/ ClearCache
    \/ Tick

SpecCache == Init /\ [][NextCache]_vars

(***************************************************************************)
(* services/yieldService.ts : queryYields and getBestYield as calls        *)
(***************************************************************************)
\* The YieldQueryParams the callers pass.  A chain id, a token, a bound or a
\* limit is a number or a string the caller chose: 0 and '' are among them.
QueryTolerances == {Some("conservative"), Some("moderate"), Some("aggressive")}

QueryBySymbol ==
    {[NoParams EXCEPT !.chainId = ch, !.token = tok, !.limit = lim] :
        ch \in {Null, Some(8453), Some(10), Some(0)},
        tok \in {Null, Some("usdc"), Some("DAI"), Some("")},
        lim \in {Null, Some(0), Some(1)}}

QueryByRisk ==
    {[NoParams EXCEPT !.chainId = ch, !.riskTolerance = tol, !.limit = lim] :
        ch \in {Null, Some(8453)},
        tol \in QueryTolerances,
        lim \in {Null, Some(0), Some(2)}}

QueryByProtocol ==
    {[NoParams EXCEPT !.whitelistedProtocols = wl, !.blacklistedProtocols = bl,
                      !.riskTolerance = tol] :
        wl \in {<<>>, <<"aave-v3", "pendle">>, <<"Pendle", "Yearn-V3">>},
        bl \in {<<>>, <<"pendle">>, <<"Pendle", "aave-v3">>},
        tol \in {Null, Some("moderate"), Some("aggressive")}}

QueryByBounds ==
    {[NoParams EXCEPT !.minApy = lo, !.maxApy = hi, !.minTvlUsd = tvl, !.limit = lim] :
        lo \in {Null, Some(0), Some(500)},
        hi \in {Null, Some(700)},
        tvl \in {Null, Some(1000000)},
        lim \in {Null, Some(2)}}

QueryInputs == QueryBySymbol \cup QueryByRisk \cup QueryByProtocol \cup QueryByBounds

\* getBestYield(chainId, token, riskTolerance?, minTvlUsd?)
BestInputs ==
    {<<ch, tok, tol, tvl>> :
        ch \in {8453, 0},
        tok \in {"USDC", "usdc", "DAI", ""},
        tol \in {Null, Some("conservative"), Some("aggressive")},
        tvl \in {Null, Some(1000000)}}

\* the parameters getBestYield hands to queryYields
BestParams(chainId, token, riskTolerance, minTvlUsd) ==
    [NoParams EXCEPT !.chainId = Some(chainId), !.token = Some(token),
                     !.riskTolerance = riskTolerance, !.minTvlUsd = minTvlUsd,
                     !.limit = Some(1)]

\* queryYields after `await this.fetchAllYields()`, and getBestYield after it
QueryReturned(kind, c, p, allYields) ==
    [pc |-> "done", kind |-> kind, fetch |-> c, params |-> p,
     result |-> Some(QueryYields(allYields, p)),
     best |-> IF kind = "best"
              THEN GetBestYield(allYields, Val(p.chainId), Val(p.token),
                                p.riskTolerance, p.minTvlUsd)
              ELSE Null]

\* the call is at `await this.fetchAllYields()`; a hit is resumed at once
QueryStarted(kind, p) ==
    LET c == Len(fetches')
    IN IF fetches'[c].pc = "done"
       THEN QueryReturned(kind, c, p, fetches'[c].result[1])
       ELSE [pc |-> "waiting", kind |-> kind, fetch |-> c, params |-> p,
             result |-> Null, best |-> Null]

QueryYieldsCall(p) ==
    /\ query.pc # "waiting"
    /\ FetchAllStart
    /\ query' = QueryStarted("query", p)
    /\ UNCHANGED <<retry, serviceVars>>

GetBestYieldCall(chainId, token, riskTolerance, minTvlUsd) ==
    /\ query.pc # "waiting"
    /\ FetchAllStart
    /\ query' = QueryStarted("best", BestParams(chainId, token, riskTolerance, minTvlUsd))
    /\ UNCHANGED <<retry, serviceVars>>

\* fetchAllYields settles: the query filters its list, or fails with it
QuerySettled ==
    /\ query.pc = "waiting"
    /\ FetchAllResume(query.fetch)
    /\ query' = IF fetches'[query.fetch].pc = "done"
                THEN QueryReturned(query.kind, query.fetch, query.params,
                                   fetches'[query.fetch].result[1])
                ELSE [query EXCEPT !.pc = "failed"]
    /\ UNCHANGED serviceVars

NextQuery ==
    \/ \E p \in QueryInputs : QueryYieldsCall(p)
    \/ \E in \in BestInputs : GetBestYieldCall(in[1], in[2], in[3], in[4])
    \/ QuerySettled
    \/ ClearCache

SpecQuery == Init /\ [][NextQuery]_vars

(***************************************************************************)
(* lib/utils : withRetry, as fetchDefiLlamaYields calls it                 *)
(***************************************************************************)
\* withRetry(fn, { maxRetries: 2, delayMs: 1000 }), backoff defaults to 2
maxRetries == 2

delayMs == 1000

backoff == 2

\* Variant of RetryDelay: the same delay before every retry
RetryDelayConstant(attempt) == delayMs

\* const delay = delayMs * Math.pow(backoff, attempt)
RetryDelay(attempt) == delayMs * backoff ^ attempt

\* What one invocation of fn comes to: the mapped pools, or a throw
AttemptErrors == {Err("DefiLlama API error: 500"), Err("DefiLlama API error: 503")}

AttemptOutcomes ==
    {Return(l) : l \in DefiLlamaPools} \cup {Throw(e) : e \in AttemptErrors}

\* withRetry entered for the fetchAllYields call c: attempt 0 invokes fn
RetryStarted(c) == [RetryIdle EXCEPT !.pc = "invoking", !.call = c, !.invocations = 1]

RetryRunning == retry.pc \in {"invoking", "sleeping"}

\* fetchAllYields with its DefiLlama fetcher followed step by step
FetchAllYieldsRetrying ==
    /\ ~RetryRunning
    /\ \A c \in 1..Len(fetches) : fetches[c].pc # "fetching"
    /\ FetchAllStart
    /\ retry' = IF fetches'[Len(fetches')].pc = "fetching"
                THEN RetryStarted(Len(fetches'))
                ELSE retry
    /\ UNCHANGED <<queryVars, serviceVars>>

\* withRetry: `return await fn()` or the catch block
RetryAttemptSettled ==
    /\ retry.pc = "invoking"
    /\ \E out \in AttemptOutcomes :
          /\ answer' = Some(out)
          /\ IF out.ok
             THEN retry' = [retry EXCEPT !.pc = "returned", !.value = Some(out.value)]
             ELSE IF retry.attempt = maxRetries
                  THEN retry' = [retry EXCEPT !.pc = "thrown",
                                              !.errors = Append(@, out.error[1])]
                  ELSE retry' = [retry EXCEPT !.pc = "sleeping",
                                              !.errors = Append(@, out.error[1]),
                                              !.failedAt = now,
                                              !.wakeAt = now + RetryDelay(retry.attempt)]
    /\ UNCHANGED <<cache, now, fetches, clears, hookVars, quickVars, queryVars, serviceVars>>

\* withRetry: sleep(delay) is over, the loop invokes fn again
RetryWake ==
    /\ retry.pc = "sleeping"
    /\ now >= retry.wakeAt
    /\ retry' = [retry EXCEPT !.pc = "invoking", !.attempt = @ + 1,
                              !.invocations = @ + 1]
    /\ fetches' = [fetches EXCEPT ![retry.call].retries = @ + 1]
    /\ answer' = Null
    /\ UNCHANGED <<cache, now, clears, hookVars, quickVars, queryVars, serviceVars>>

\* what fetchDefiLlamaYields came to
\* Variant of RetryOutcome: the error of the first attempt is the one raised
RetryOutcomeFirstError ==
    IF retry.pc = "returned" THEN Return(retry.value[1])
    ELSE Throw(retry.errors[1])

RetryOutcome ==
    IF retry.pc = "returned" THEN Return(retry.value[1])
    ELSE Throw(retry.errors[Len(retry.errors)])

\* Promise.all settles: DefiLlama's withRetry has returned and Yearn's chains
\* have all been visited, or withRetry has thrown
FetchSourcesSettled(c) ==
    /\ c \in 1..Len(fetches)
    /\ fetches[c].pc = "fetching"
    /\ retry.call = c
    /\ retry.pc \in {"returned", "thrown"}
    /\ \E yearn \in YearnAnswers :
          /\ Settle(c, RetryOutcome, FetchYearnYields(yearn))
          /\ answer' = Some([defiLlama |-> RetryOutcome, yearn |-> yearn])
    /\ retry' = RetryIdle
    /\ UNCHANGED <<now, clears, hookVars, quickVars, queryVars, serviceVars>>

\* time passes while withRetry sleeps; the timer always gets the time to fire
TickRetry ==
    /\ retry.pc = "sleeping"
    /\ now + RetryTickMs <= MaxRetryTime \/ now < retry.wakeAt
    /\ now' = now + RetryTickMs
    /\ answer' = Null
    /\ UNCHANGED <<cache, fetches, clears, retry, hookVars, quickVars, queryVars, serviceVars>>

NextFetch ==
    \/ FetchAllYieldsRetrying
    \/ RetryAttemptSettled
    \/ RetryWake
    \/ \E c \in 1..MaxFetches : FetchSourcesSettled(c)
    \/ TickRetry

SpecFetch == Init /\ [][NextFetch]_vars

\* every awaited request settles and every timer fires
SpecFetchFair ==
    /\ SpecFetch
    /\ WF_vars(RetryAttemptSettled)
    /\ WF_vars(RetryWake)
    /\ WF_vars(TickRetry)
    /\ WF_vars(\E c \in 1..MaxFetches : FetchSourcesSettled(c))

(***************************************************************************)
(* services/ensService.ts : the text records and parsePreferences          *)
(***************************************************************************)
\* Object.values(ENS_RECORD_KEYS), in the order getAllTextRecords reads them
K_preferredChains      == "com.yieldintent.preferredChains"
K_riskTolerance        == "com.yieldintent.riskTolerance"
K_maxSlippageBps       == "com.yieldintent.maxSlippageBps"
K_defaultAction        == "com.yieldintent.defaultAction"
K_whitelistedProtocols == "com.yieldintent.whitelistedProtocols"
K_blacklistedProtocols == "com.yieldintent.blacklistedProtocols"
K_minLiquidityUsd      == "com.yieldintent.minLiquidityUsd"
K_strategyFollow       == "com.yieldintent.strategyFollow"
K_autoRebalance        == "com.yieldintent.autoRebalance"
K_notificationPrefs    == "com.yieldintent.notificationPrefs"

ENS_RECORD_KEYS ==
    <<K_preferredChains, K_riskTolerance, K_maxSlippageBps, K_defaultAction,
      K_whitelistedProtocols, K_blacklistedProtocols, K_minLiquidityUsd,
      K_strategyFollow, K_autoRebalance, K_notificationPrefs>>

RecordKeys == {ENS_RECORD_KEYS[i] : i \in 1..Len(ENS_RECORD_KEYS)}

\* A value JSON.parse can return: its type, the elements of an array (as
\* strings), and whether every element of the array is a string.
JsonArray(items) == [type |-> "array", items |-> items, strings |-> TRUE]

JsonNumbers(items) == [type |-> "array", items |-> items, strings |-> FALSE]

JsonObject(entries) == [type |-> "object", items |-> entries, strings |-> TRUE]

JsonOther(type) == [type |-> type, items |-> <<>>, strings |-> TRUE]

\* the texts of the model that are JSON, with their value
JsonTexts ==
    ("[\"base\",\"Arbitrum\"]" :> JsonArray(<<"base", "Arbitrum">>)) @@
    ("[\"aave-v3\",\"pendle\"]" :> JsonArray(<<"aave-v3", "pendle">>)) @@
    ("[\"pendle\"]" :> JsonArray(<<"pendle">>)) @@
    ("[]" :> JsonArray(<<>>)) @@
    ("[\"base\",\"arbitrum\"]" :> JsonArray(<<"base", "arbitrum">>)) @@
    ("{}" :> JsonObject(<<>>)) @@
    ("[1,2]" :> JsonNumbers(<<"1", "2">>)) @@
    ("{\"email\":\"a@b.c\"}" :> JsonObject(<<"email=a@b.c">>)) @@
    ("\"pendle\"" :> JsonOther("string")) @@
    ("42" :> JsonOther("number")) @@
    ("null" :> JsonOther("null"))

\* JSON.parse: the value, or a SyntaxError
JSONParse(text) ==
    IF text \in DOMAIN JsonTexts
    THEN Return(JsonTexts[text])
    ELSE Throw(Err("Unexpected token in JSON"))

\* Array.isArray
IsArray(json) == json.type = "array"

\* typeof x === 'object': objects, arrays and null
TypeofObject(json) == json.type \in {"object", "array", "null"}

\* a string as JSON.stringify writes it (no text of the model holds a
\* character that is escaped)
Quote(text) == "\"" \o text \o "\""

RECURSIVE JoinComma(_)
JoinComma(texts) ==
    IF texts = <<>> THEN ""
    ELSE IF Len(texts) = 1 THEN texts[1]
    ELSE Head(texts) \o "," \o JoinComma(Tail(texts))

\* JSON.stringify of an array of strings
JSONStringifyArray(items) ==
    "[" \o JoinComma([i \in 1..Len(items) |-> Quote(items[i])]) \o "]"

\* the members of the objects of the model, as JSON.stringify writes them
JsonMember == ("email=a@b.c" :> "\"email\":\"a@b.c\"")

\* JSON.stringify of an object whose values are strings
JSONStringifyObject(json) ==
    "{" \o JoinComma([i \in 1..Len(json.items) |-> JsonMember[json.items[i]]]) \o "}"

\* A Number that is a non-negative integer, by its decimal digits: the
\* Numbers of the code go beyond the integers of the model
DigitText == <<"0", "1", "2", "3", "4", "5", "6", "7", "8", "9">>

RECURSIVE DecimalDigits(_)
DecimalDigits(n) ==
    IF n < 10 THEN <<DigitText[n + 1]>>
    ELSE Append(DecimalDigits(n \div 10), DigitText[(n % 10) + 1])

RECURSIVE Concat(_)
Concat(cs) == IF cs = <<>> THEN "" ELSE Head(cs) \o Concat(Tail(cs))

RECURSIVE StripZeros(_)
StripZeros(cs) ==
    IF cs # <<>> /\ cs[Len(cs)] = "0" THEN StripZeros(SubSeq(cs, 1, Len(cs) - 1)) ELSE cs

\* 10^21, where Number.prototype.toString changes to exponent notation
ExponentFromDigits == 22

\* Number.prototype.toString() of a non-negative integer: its decimal digits
\* below 10^21, d[.ddd]e+n from there on
NumberToString(digits) ==
    IF Len(digits) < ExponentFromDigits THEN Concat(digits)
    ELSE LET fraction == StripZeros(Tail(digits))
         IN Head(digits)
            \o (IF fraction = <<>> THEN "" ELSE "." \o Concat(fraction))
            \o "e+" \o Concat(DecimalDigits(Len(digits) - 1))

\* the characters of the texts of the model that the code reads into:
\* the numbers parseInt is given, the handles and the suffixes
Chars ==
    ("50" :> <<"5", "0">>) @@
    ("1000" :> <<"1", "0", "0", "0">>) @@
    ("1001" :> <<"1", "0", "0", "1">>) @@
    ("1500" :> <<"1", "5", "0", "0">>) @@
    ("0" :> <<"0">>) @@
    ("1" :> <<"1">>) @@
    ("1e+21" :> <<"1", "e", "+", "2", "1">>) @@
    ("-5" :> <<"-", "5">>) @@
    ("abc" :> <<"a", "b", "c">>) @@
    ("12abc" :> <<"1", "2", "a", "b", "c">>) @@
    ("1e3" :> <<"1", "e", "3">>) @@
    ("100.9" :> <<"1", "0", "0", ".", "9">>) @@
    (" 42" :> <<" ", "4", "2">>) @@
    ("+7" :> <<"+", "7">>) @@
    ("250000" :> <<"2", "5", "0", "0", "0", "0">>) @@
    ("-" :> <<"-">>) @@
    ("alice.eth" :> <<"a", "l", "i", "c", "e", ".", "e", "t", "h">>) @@
    ("Bob.ETH" :> <<"B", "o", "b", ".", "E", "T", "H">>) @@
    ("bob.eth" :> <<"b", "o", "b", ".", "e", "t", "h">>) @@
    ("Bob.ETH " :> <<"B", "o", "b", ".", "E", "T", "H", " ">>) @@
    ("bob.eth " :> <<"b", "o", "b", ".", "e", "t", "h", " ">>) @@
    ("alice" :> <<"a", "l", "i", "c", "e">>) @@
    ("dave.base" :> <<"d", "a", "v", "e", ".", "b", "a", "s", "e">>) @@
    ("" :> <<>>) @@
    ("carol.xyz" :> <<"c", "a", "r", "o", "l", ".", "x", "y", "z">>) @@
    ("not-a-handle" :> <<"n", "o", "t", "-", "a", "-", "h", "a", "n", "d", "l", "e">>) @@
    (".eth" :> <<".", "e", "t", "h">>) @@
    (".xyz" :> <<".", "x", "y", "z">>) @@
    (".luxe" :> <<".", "l", "u", "x", "e">>) @@
    (".kred" :> <<".", "k", "r", "e", "d">>) @@
    (".art" :> <<".", "a", "r", "t">>)

Digits == {"0", "1", "2", "3", "4", "5", "6", "7", "8", "9"}

DigitValue == [d \in Digits |-> CHOOSE n \in 0..9 : <<"0", "1", "2", "3", "4", "5", "6", "7", "8", "9">>[n + 1] = d]

\* the value of the longest prefix of digits of cs, reading on from acc
RECURSIVE DigitsPrefix(_, _)
DigitsPrefix(cs, acc) ==
    IF cs = <<>> \/ Head(cs) \notin Digits THEN acc
    ELSE DigitsPrefix(Tail(cs), acc * 10 + DigitValue[Head(cs)])

RECURSIVE SkipWhitespace(_)
SkipWhitespace(cs) ==
    IF cs # <<>> /\ Head(cs) = " " THEN SkipWhitespace(Tail(cs)) ELSE cs

\* parseInt(text, 10): leading whitespace and a sign are skipped, the digits
\* that follow are read, whatever comes after them is ignored; NaN (Null)
\* when no digit is there
ParseInt(text) ==
    LET cs == SkipWhitespace(Chars[text])
        signed == cs # <<>> /\ Head(cs) \in {"-", "+"}
        body == IF signed THEN Tail(cs) ELSE cs
    IN IF body = <<>> \/ Head(body) \notin Digits
       THEN Null
       ELSE Some(IF signed /\ Head(cs) = "-"
                 THEN 0 - DigitsPrefix(body, 0)
                 ELSE DigitsPrefix(body, 0))

\* isNaN
IsNaN(n) == n = Null

DEFAULT_PREFERENCES ==
    [preferredChains      |-> <<"base", "arbitrum", "optimism">>,
     riskTolerance        |-> "moderate",
     maxSlippageBps       |-> 100,
     defaultAction        |-> "deposit",
     whitelistedProtocols |-> <<>>,
     blacklistedProtocols |-> <<>>,
     minLiquidityUsd      |-> 100000,
     strategyFollow       |-> Null,
     autoRebalance        |-> FALSE,
     notificationPrefs    |-> JsonObject(<<>>)]

\* records: each key of ENS_RECORD_KEYS with its text, or Null when the
\* object has no such property
NoRecords == [k \in RecordKeys |-> Null]

\* if (records[key]): the property is there and its text is not empty
HasRecord(records, key) == records[key] # Null /\ Val(records[key]) # ""

\* parsePreferences, field by field
ParsePreferredChains(records) ==
    IF ~HasRecord(records, K_preferredChains) THEN DEFAULT_PREFERENCES.preferredChains
    ELSE LET chains == JSONParse(Val(records[K_preferredChains]))
         IN IF chains.ok /\ IsArray(chains.value) /\ chains.value.strings
            THEN MapToLowerCase(chains.value.items)
            ELSE DEFAULT_PREFERENCES.preferredChains

RiskRecognized(records) ==
    /\ HasRecord(records, K_riskTolerance)
    /\ Val(records[K_riskTolerance]) \in {"conservative", "moderate", "aggressive"}

ParseRiskTolerance(records) ==
    IF RiskRecognized(records)
    THEN Val(records[K_riskTolerance])
    ELSE DEFAULT_PREFERENCES.riskTolerance

ParseMaxSlippageBps(records) ==
    IF ~HasRecord(records, K_maxSlippageBps) THEN DEFAULT_PREFERENCES.maxSlippageBps
    ELSE LET slippage == ParseInt(Val(records[K_maxSlippageBps]))
         IN IF ~IsNaN(slippage) /\ Val(slippage) > 0 /\ Val(slippage) <= 1000
            THEN Val(slippage)
            ELSE DEFAULT_PREFERENCES.maxSlippageBps

ParseDefaultAction(records) ==
    IF /\ HasRecord(records, K_defaultAction)
       /\ Val(records[K_defaultAction]) \in {"deposit", "bridge", "swap"}
    THEN Val(records[K_defaultAction])
    ELSE DEFAULT_PREFERENCES.defaultAction

\* Variant of RiskWhitelist: the risk tolerance does not set the whitelist
RiskWhitelistUnset(records) ==
    DEFAULT_PREFERENCES.whitelistedProtocols

\* the whitelist the riskTolerance block leaves behind
RiskWhitelist(records) ==
    IF RiskRecognized(records)
    THEN RISK_TOLERANCE_MAP[Val(records[K_riskTolerance])]
    ELSE DEFAULT_PREFERENCES.whitelistedProtocols

ParseWhitelistedProtocols(records) ==
    IF ~HasRecord(records, K_whitelistedProtocols) THEN RiskWhitelist(records)
    ELSE LET protocols == JSONParse(Val(records[K_whitelistedProtocols]))
         IN IF protocols.ok /\ IsArray(protocols.value)
            THEN protocols.value.items
            ELSE RiskWhitelist(records)

ParseBlacklistedProtocols(records) ==
    IF ~HasRecord(records, K_blacklistedProtocols)
    THEN DEFAULT_PREFERENCES.blacklistedProtocols
    ELSE LET protocols == JSONParse(Val(records[K_blacklistedProtocols]))
         IN IF protocols.ok /\ IsArray(protocols.value)
            THEN protocols.value.items
            ELSE DEFAULT_PREFERENCES.blacklistedProtocols

ParseMinLiquidityUsd(records) ==
    IF ~HasRecord(records, K_minLiquidityUsd) THEN DEFAULT_PREFERENCES.minLiquidityUsd
    ELSE LET liquidity == ParseInt(Val(records[K_minLiquidityUsd]))
         IN IF ~IsNaN(liquidity) /\ Val(liquidity) >= 0
            THEN Val(liquidity)
            ELSE DEFAULT_PREFERENCES.minLiquidityUsd

ParseStrategyFollow(records) ==
    IF HasRecord(records, K_strategyFollow)
    THEN records[K_strategyFollow]
    ELSE DEFAULT_PREFERENCES.strategyFollow

ParseAutoRebalance(records) ==
    IF HasRecord(records, K_autoRebalance)
    THEN Val(records[K_autoRebalance]) = "true"
    ELSE DEFAULT_PREFERENCES.autoRebalance

ParseNotificationPrefs(records) ==
    IF ~HasRecord(records, K_notificationPrefs)
    THEN DEFAULT_PREFERENCES.notificationPrefs
    ELSE LET notifs == JSONParse(Val(records[K_notificationPrefs]))
         IN IF notifs.ok /\ TypeofObject(notifs.value)
            THEN notifs.value
            ELSE DEFAULT_PREFERENCES.notificationPrefs

ParsePreferences(records) ==
    [preferredChains      |-> ParsePreferredChains(records),
     riskTolerance        |-> ParseRiskTolerance(records),
     maxSlippageBps       |-> ParseMaxSlippageBps(records),
     defaultAction        |-> ParseDefaultAction(records),
     whitelistedProtocols |-> ParseWhitelistedProtocols(records),
     blacklistedProtocols |-> ParseBlacklistedProtocols(records),
     minLiquidityUsd      |-> ParseMinLiquidityUsd(records),
     strategyFollow       |-> ParseStrategyFollow(records),
     autoRebalance        |-> ParseAutoRebalance(records),
     notificationPrefs    |-> ParseNotificationPrefs(records)]

\* Variant of SerializePreferences: the whitelist record is not written
SerializePreferencesNoWhitelist(prefs) ==
    (K_preferredChains :> Some(JSONStringifyArray(prefs.preferredChains))) @@
    (K_riskTolerance :> Some(prefs.riskTolerance)) @@
    (K_maxSlippageBps :> Some(NumberToString(prefs.maxSlippageBps))) @@
    (K_defaultAction :> Some(prefs.defaultAction)) @@
    (K_whitelistedProtocols :> Null) @@
    (K_blacklistedProtocols :> Some(JSONStringifyArray(prefs.blacklistedProtocols))) @@
    (K_minLiquidityUsd :> Some(NumberToString(prefs.minLiquidityUsd))) @@
    (K_strategyFollow :> Some(IF TruthyStr(prefs.strategyFollow)
                              THEN Val(prefs.strategyFollow) ELSE "")) @@
    (K_autoRebalance :> Some(IF prefs.autoRebalance THEN "true" ELSE "false")) @@
    (K_notificationPrefs :> Some(JSONStringifyObject(prefs.notificationPrefs)))

\* serializePreferences: every record is written; the two Numbers of prefs
\* are given by their decimal digits
SerializePreferences(prefs) ==
    (K_preferredChains :> Some(JSONStringifyArray(prefs.preferredChains))) @@
    (K_riskTolerance :> Some(prefs.riskTolerance)) @@
    (K_maxSlippageBps :> Some(NumberToString(prefs.maxSlippageBps))) @@
    (K_defaultAction :> Some(prefs.defaultAction)) @@
    (K_whitelistedProtocols :> Some(JSONStringifyArray(prefs.whitelistedProtocols))) @@
    (K_blacklistedProtocols :> Some(JSONStringifyArray(prefs.blacklistedProtocols))) @@
    (K_minLiquidityUsd :> Some(NumberToString(prefs.minLiquidityUsd))) @@
    (K_strategyFollow :> Some(IF TruthyStr(prefs.strategyFollow)
                              THEN Val(prefs.strategyFollow) ELSE "")) @@
    (K_autoRebalance :> Some(IF prefs.autoRebalance THEN "true" ELSE "false")) @@
    (K_notificationPrefs :> Some(JSONStringifyObject(prefs.notificationPrefs)))

(***************************************************************************)
(* next.config.js : isValidEnsName, and the normalisation of a handle      *)
(***************************************************************************)
\* String.prototype.trim, on the texts of the model that have outer blanks
TrimOf == ("bob.eth " :> "bob.eth") @@ (" alice.eth" :> "alice.eth")

trim(text) == IF text \in DOMAIN TrimOf THEN TrimOf[text] ELSE text

\* name.toLowerCase().trim()
NormalizeName(name) == trim(toLowerCase(name))

\* String.prototype.endsWith
EndsWith(text, suffix) ==
    LET cs == Chars[text]
        ss == Chars[suffix]
    IN /\ Len(ss) <= Len(cs)
       /\ SubSeq(cs, Len(cs) - Len(ss) + 1, Len(cs)) = ss

validTlds == <<".eth", ".xyz", ".luxe", ".kred", ".art">>

isValidEnsName(name) ==
    \E i \in 1..Len(validTlds) : EndsWith(toLowerCase(name), validTlds[i])

(***************************************************************************)
(* What the naming service can answer                                      *)
(***************************************************************************)
NetworkError == Err("network error")

\* getEnsAddress: an address, null, or a failed read
AddressAnswers == {Return(Some("0xa11ce")), Return(Null), Throw(NetworkError)}

\* getEnsAvatar: a URL, null, or a failed read
AvatarAnswers == {Return(Some("https://avatar/a.png")), Return(Null), Throw(NetworkError)}

\* getEnsText of the ten keys of one handle: no record is set
AbsentAnswers == [k \in RecordKeys |-> Return(Null)]

\* getEnsText of the ten keys of one handle: every record but strategyFollow
\* is set and well-formed
TypicalAnswers ==
    (K_preferredChains      :> Return(Some("[\"base\",\"Arbitrum\"]"))) @@
    (K_riskTolerance        :> Return(Some("conservative"))) @@
    (K_maxSlippageBps       :> Return(Some("50"))) @@
    (K_defaultAction        :> Return(Some("swap"))) @@
    (K_whitelistedProtocols :> Return(Some("[\"aave-v3\",\"pendle\"]"))) @@
    (K_blacklistedProtocols :> Return(Some("[\"pendle\"]"))) @@
    (K_minLiquidityUsd      :> Return(Some("250000"))) @@
    (K_strategyFollow       :> Return(Null)) @@
    (K_autoRebalance        :> Return(Some("true"))) @@
    (K_notificationPrefs    :> Return(Some("{\"email\":\"a@b.c\"}")))

\* the texts one record can hold in the model: well-formed and malformed
RecordTexts ==
    (K_preferredChains      :> {"[\"base\",\"Arbitrum\"]", "[1,2]", "\"pendle\"", "not json", ""}) @@
    (K_riskTolerance        :> {"conservative", "moderate", "aggressive", "reckless", "Conservative"}) @@
    (K_maxSlippageBps       :> {"50", "1000", "1001", "1500", "0", "-5", "abc", "12abc", "1e3", "100.9", " 42"}) @@
    (K_defaultAction        :> {"swap", "bridge", "deposit", "stake"}) @@
    (K_whitelistedProtocols :> {"[\"aave-v3\",\"pendle\"]", "[]", "not json", "42", "[1,2]"}) @@
    (K_blacklistedProtocols :> {"[\"pendle\"]", "not json", "null"}) @@
    (K_minLiquidityUsd      :> {"250000", "0", "-5", "abc", "12abc"}) @@
    (K_strategyFollow       :> {"bob.eth", "not-a-handle", "alice.eth"}) @@
    (K_autoRebalance        :> {"true", "false", "yes"}) @@
    (K_notificationPrefs    :> {"{\"email\":\"a@b.c\"}", "null", "[]", "42", "not json"})

\* The answers to the ten reads of one handle: one of the two bases with one
\* read replaced by another text, by null, or by a failed read
RecordAnswers ==
    UNION {{[base EXCEPT ![k] = a] :
               a \in {Return(Some(t)) : t \in RecordTexts[k]}
                     \cup {Return(Null), Throw(NetworkError)}} :
           base \in {AbsentAnswers, TypicalAnswers}, k \in RecordKeys}

\* getTextRecord: the text, or null when the read failed
GetTextRecord(read) == IF read.ok THEN read.value ELSE Null

\* getAllTextRecords: the keys whose text is truthy
GetAllTextRecords(answers) ==
    [k \in RecordKeys |->
        IF TruthyStr(GetTextRecord(answers[k])) THEN GetTextRecord(answers[k]) ELSE Null]

\* the reads getAllTextRecords makes for a handle, in order
Lookup(op, name, key) == [op |-> op, name |-> name, key |-> key]

TextLookups(name) ==
    [i \in 1..Len(ENS_RECORD_KEYS) |->
        Lookup("getEnsText", NormalizeName(name), ENS_RECORD_KEYS[i])]

(***************************************************************************)
(* services/ensService.ts : getProfile, and hooks/useENS : resolveName     *)
(*                                                                         *)
(* ens is the latest getProfile call: where it stands (pc), whether the    *)
(* hook made it, the handle passed and its normal form, what was read so   *)
(* far, every read sent to the naming service in order (lookups), the      *)
(* profile returned or the error raised, the error the hook shows, and     *)
(* the result of the last findTargetYield made with the profile.           *)
(***************************************************************************)
\* the handles callers pass
HookNames == {"alice.eth", "Bob.ETH", "Bob.ETH ", "alice", "dave.base", ""}

ServiceNames == {"alice.eth", "Bob.ETH ", "alice"}

EnsSettled == ens.pc \in {"idle", "rejected", "done", "raised"}

\* getProfile up to its first await: resolveName(normalizedName)
GetProfileStarted(name, hook) ==
    [EnsIdle EXCEPT !.pc = "address", !.hook = hook, !.input = name,
                    !.name = NormalizeName(name),
                    !.lookups = <<Lookup("getEnsAddress", NormalizeName(name), "")>>]

\* useENS.resolveName(name)
ResolveName(name) ==
    /\ EnsSettled
    /\ ens' = IF name = "" \/ ~isValidEnsName(name)
              THEN [EnsIdle EXCEPT !.pc = "rejected", !.hook = TRUE, !.input = name,
                                   !.error = Some("Invalid ENS name")]
              ELSE GetProfileStarted(name, TRUE)
    /\ answer' = Null
    /\ UNCHANGED <<hookVars, quickVars, cacheVars, queryVars, lifi, applied>>

\* ensService.getProfile(name), called without the hook (useENSPreferences)
GetProfileCall(name) ==
    /\ EnsSettled
    /\ ens' = GetProfileStarted(name, FALSE)
    /\ answer' = Null
    /\ UNCHANGED <<hookVars, quickVars, cacheVars, queryVars, lifi, applied>>

NotFoundMsg(name) == "ENS name \"" \o name \o "\" not found on Sepolia testnet"

\* Variant of ResolveNameResult: a failed read yields the zero address
ResolveNameResultZero(out) ==
    IF out.ok THEN out.value ELSE Some("0x0")

\* ensService.resolveName: the address read, or null when the read failed
ResolveNameResult(out) ==
    IF out.ok THEN out.value ELSE Null

\* resolveName settles: no address returns null, otherwise
\* getAllTextRecords(normalizedName) starts
AddressSettled ==
    /\ ens.pc = "address"
    /\ \E out \in AddressAnswers :
         LET address == ResolveNameResult(out)
         IN /\ answer' = Some([ens |-> out])
            /\ ens' = IF address = Null
                      THEN [ens EXCEPT !.pc = "done", !.profile = Null,
                              !.error = IF ens.hook THEN Some(NotFoundMsg(ens.input))
                                        ELSE Null]
                      ELSE [ens EXCEPT !.pc = "records", !.address = address,
                              !.lookups = @ \o TextLookups(ens.name)]
    /\ UNCHANGED <<hookVars, quickVars, cacheVars, queryVars, lifi, applied>>

AvatarLookup == Lookup("getEnsAvatar", ens.name, "")

\* the handle's records settle: with a strategyFollow record the reads of
\* the followed handle start, otherwise getEnsAvatar
RecordsSettled ==
    /\ ens.pc = "records"
    /\ \E answers \in RecordAnswers :
         LET records == GetAllTextRecords(answers)
         IN /\ answer' = Some([ens |-> answers])
            /\ ens' = IF HasRecord(records, K_strategyFollow)
                      THEN [ens EXCEPT !.pc = "followed", !.records = Some(records),
                              !.lookups = @ \o TextLookups(Val(records[K_strategyFollow]))]
                      ELSE [ens EXCEPT !.pc = "avatar", !.records = Some(records),
                              !.lookups = Append(@, AvatarLookup)]
    /\ UNCHANGED <<hookVars, quickVars, cacheVars, queryVars, lifi, applied>>

\* Variant of FollowedSettled: a strategyFollow record of the followed
\* handle is followed once more
FollowedSettledTwoLevels ==
    /\ ens.pc = "followed"
    /\ \E answers \in RecordAnswers :
         LET followed == GetAllTextRecords(answers)
         IN /\ answer' = Some([ens |-> answers])
            /\ ens' = IF ens.followedRecords = Null /\ HasRecord(followed, K_strategyFollow)
                      THEN [ens EXCEPT !.followedRecords = Some(followed),
                              !.lookups = @ \o TextLookups(Val(followed[K_strategyFollow]))]
                      ELSE [ens EXCEPT !.pc = "avatar",
                              !.followedRecords = Some(followed),
                              !.lookups = Append(@, AvatarLookup)]
    /\ UNCHANGED <<hookVars, quickVars, cacheVars, queryVars, lifi, applied>>

\* the followed handle's records settle: getEnsAvatar starts
FollowedSettled ==
    /\ ens.pc = "followed"
    /\ \E answers \in RecordAnswers :
         /\ answer' = Some([ens |-> answers])
         /\ ens' = [ens EXCEPT !.pc = "avatar",
                      !.followedRecords = Some(GetAllTextRecords(answers)),
                      !.lookups = Append(@, AvatarLookup)]
    /\ UNCHANGED <<hookVars, quickVars, cacheVars, queryVars, lifi, applied>>

\* Variant of Profile: the preferences are parsed from the handle's own
\* records even when it follows another handle
ProfileOwnRecords(e, avatar) ==
    LET following == HasRecord(Val(e.records), K_strategyFollow)
    IN [name |-> e.name,
        address |-> Val(e.address),
        avatar |-> IF TruthyStr(avatar) THEN avatar ELSE Null,
        preferences |-> ParsePreferences(Val(e.records)),
        isFollowingStrategy |-> following,
        followedStrategyOwner |-> IF following
                                  THEN Val(e.records)[K_strategyFollow]
                                  ELSE Null]

\* the ENSProfile getProfile returns
Profile(e, avatar) ==
    LET following == HasRecord(Val(e.records), K_strategyFollow)
    IN [name |-> e.name,
        address |-> Val(e.address),
        avatar |-> IF TruthyStr(avatar) THEN avatar ELSE Null,
        preferences |-> IF following
                        THEN ParsePreferences(Val(e.followedRecords))
                        ELSE ParsePreferences(Val(e.records)),
        isFollowingStrategy |-> following,
        followedStrategyOwner |-> IF following
                                  THEN Val(e.records)[K_strategyFollow]
                                  ELSE Null]

\* getEnsAvatar settles: the profile is returned; a failed read is not
\* caught in getProfile, the hook catches it and shows its message
AvatarSettled ==
    /\ ens.pc = "avatar"
    /\ \E out \in AvatarAnswers :
         /\ answer' = Some([ens |-> out])
         /\ ens' = IF out.ok
                   THEN [ens EXCEPT !.pc = "done",
                           !.profile = Some(Profile(ens, out.value))]
                   ELSE [ens EXCEPT !.pc = "raised", !.raised = out.error,
                           !.error = IF ens.hook THEN Some(Val(out.error).message)
                                     ELSE Null]
    /\ UNCHANGED <<hookVars, quickVars, cacheVars, queryVars, lifi, applied>>

\* opportunities whose protocol and risk level disagree about "conservative"
OppMorphoMedium == Opp("morpho", "Morpho", 8453, "USDC", 800, 4000000, "medium", "0xbb")

OppSiloLow == Opp("silo", "Silo", 8453, "USDC", 600, 3000000, "low", "0xdd")

\* the lists fetchAllYields hands to findTargetYield
TargetLists ==
    FetchAllResults \cup {SortByApyDesc(<<OppAave, OppMorphoMedium, OppSiloLow>>)}

\* useYield.findTargetYield(destinationChain, token, profile.preferences),
\* over the list fetchAllYields returns
FindTargetYield(destinationChain, token, all) ==
    /\ ens.pc = "done"
    /\ ens.profile # Null
    /\ ens.found = Null
    /\ LET preferences == Val(ens.profile).preferences
           results == QueryYields(all,
                        [NoParams EXCEPT
                           !.chainId = Some(destinationChain),
                           !.token = Some(token),
                           !.riskTolerance = Some(preferences.riskTolerance),
                           !.minTvlUsd = Some(preferences.minLiquidityUsd),
                           !.whitelistedProtocols = preferences.whitelistedProtocols,
                           !.blacklistedProtocols = preferences.blacklistedProtocols,
                           !.limit = Some(5)])
       IN ens' = [ens EXCEPT !.found =
                    Some([chainId |-> destinationChain, token |-> token,
                          all |-> all, results |-> results,
                          targetYield |-> IF Len(results) > 0 THEN Some(results[1])
                                          ELSE Null])]
    /\ answer' = Null
    /\ UNCHANGED <<hookVars, quickVars, cacheVars, queryVars, lifi, applied>>

NextEns ==
    \/ \E name \in HookNames : ResolveName(name)
    \/ \E name \in ServiceNames : GetProfileCall(name)
    \/ AddressSettled
    \/ RecordsSettled
    \/ FollowedSettled
    \/ AvatarSettled
    \/ \E all \in TargetLists : FindTargetYield(8453, "usdc", all)

SpecEns == Init /\ [][NextEns]_vars

\* every read the naming service was sent settles
SpecEnsFair ==
    /\ SpecEns
    /\ WF_vars(AddressSettled)
    /\ WF_vars(RecordsSettled)
    /\ WF_vars(FollowedSettled)
    /\ WF_vars(AvatarSettled)

(***************************************************************************)
(* LiFiService.getRoutes, and the route step of buildIntent                *)
(*                                                                         *)
(* lifi is the latest getRoutes call: its arguments (request), whether a   *)
(* request went to the routing service (sent), what the service answered   *)
(* (response), and the RouteQuote returned (quote, null when not found)    *)
(* or the error thrown.  It also holds the latest executeRoute call made   *)
(* with the quote's best route and a status callback: where it stands      *)
(* (run), the route passed, the ExecutionStatus values the callback was    *)
(* given in order (updates) and the error raised to the caller.            *)
(***************************************************************************)
ReqDestUnmapped == Req("USDC", 8453, "foo")

ReqChainUnmapped == Req("usdc", 137, "USDC")

\* the requests getRoutes and buildIntent are given
RouteRequests == {ReqBase, ReqUnmapped, ReqDestUnmapped, ReqChainUnmapped}

\* preferences with a whitelist the user has set
PrefWhitelisted == Pref("aggressive", 0, <<"aave-v3", "compound-v3">>, <<>>)

RouteBuildInputs ==
    BuildInputs \cup {<<ReqDestUnmapped, PrefModerate>>, <<ReqChainUnmapped, PrefModerate>>,
                      <<ReqBase, PrefWhitelisted>>}

\* the response of the routing service: routes may be missing
ProviderResponses(req) ==
    {[routes |-> Null]} \cup {[routes |-> Some(routes)] : routes \in RouteResponses(req)}

\* Variant of RouteQuote: the routes are ranked by id before the best is taken
RouteQuoteRanked(routes, amount) ==
    LET ranked == SortSeq(routes, LAMBDA a, b : a.id < b.id)
    IN [routes |-> ranked, bestRoute |-> ranked[1], fromAmount |-> amount]

\* the RouteQuote getRoutes builds; toAmount, gasCostUSD and estimatedTime
\* are read off bestRoute, whose amounts and steps Route leaves out
RouteQuote(routes, amount) ==
    [routes |-> routes, bestRoute |-> routes[1], fromAmount |-> amount]

\* getRoutes up to `await getRoutes(params)`, or to the throw of the token check
GetRoutesCall(req) ==
    /\ lifi.pc # "waiting"
    /\ lifi.run # "pending"
    /\ lifi' = IF ~RouteInputValid(req)
               THEN [LifiIdle EXCEPT !.pc = "thrown", !.request = Some(req),
                                     !.error = Some(Err(TokenNotSupportedMsg(req)))]
               ELSE [LifiIdle EXCEPT !.pc = "waiting", !.request = Some(req),
                                     !.sent = TRUE]
    /\ answer' = Null
    /\ UNCHANGED <<hookVars, quickVars, cacheVars, queryVars, ens, applied>>

\* the routing service answers: no routes returns null, otherwise the quote;
\* its error is logged and thrown again
GetRoutesSettled ==
    /\ lifi.pc = "waiting"
    /\ \/ \E response \in ProviderResponses(Val(lifi.request)) :
            /\ answer' = Some(Return(response))
            /\ lifi' = IF response.routes = Null \/ Len(Val(response.routes)) = 0
                       THEN [lifi EXCEPT !.pc = "returned", !.response = Some(response),
                                         !.quote = Null]
                       ELSE [lifi EXCEPT !.pc = "returned", !.response = Some(response),
                                         !.quote = Some(RouteQuote(Val(response.routes),
                                                          Val(lifi.request).fromAmount))]
       \/ \E e \in ProviderErrors :
            /\ answer' = Some(Throw(e))
            /\ lifi' = [lifi EXCEPT !.pc = "thrown", !.error = Some(e)]
    /\ UNCHANGED <<hookVars, quickVars, cacheVars, queryVars, ens, applied>>

\* the ExecutionStatus values executeRoute passes to onUpdate
StatusLoading == [status |-> "loading", error |-> Null]

StatusSuccess == [status |-> "success", error |-> Null]

StatusError(e) == [status |-> "error", error |-> Some(ErrMessage(e, ExecFallbackMsg))]

\* IntentBuilder.handleExecute: executeRoute(routeQuote.bestRoute, onUpdate)
\* up to `await executeRoute(route)` of the SDK
HandleExecute ==
    /\ lifi.quote # Null
    /\ lifi.run # "pending"
    /\ lifi' = [lifi EXCEPT !.run = "pending",
                            !.route = Some(Val(lifi.quote).bestRoute),
                            !.updates = Emit(<<>>, TRUE, StatusLoading),
                            !.raised = Null]
    /\ answer' = Null
    /\ UNCHANGED <<hookVars, quickVars, cacheVars, queryVars, ens, applied>>

\* Variant of ExecuteRouteSettled: a raise is followed by 'success' as well
ExecuteRouteSettledBoth ==
    /\ lifi.run = "pending"
    /\ \E out \in ExecuteRouteOutcomes :
         /\ answer' = Some(out)
         /\ lifi' = IF out.ok
                    THEN [lifi EXCEPT !.run = "returned",
                            !.updates = Emit(@, TRUE, StatusSuccess)]
                    ELSE [lifi EXCEPT !.run = "raised",
                            !.updates = Emit(Emit(@, TRUE, StatusError(Val(out.error))),
                                             TRUE, StatusSuccess),
                            !.raised = out.error]
    /\ UNCHANGED <<hookVars, quickVars, cacheVars, queryVars, ens, applied>>

\* the SDK's executeRoute settles: 'success' and the route are returned, or
\* 'error' is passed to the callback and the error thrown again
ExecuteRouteSettled ==
    /\ lifi.run = "pending"
    /\ \E out \in ExecuteRouteOutcomes :
         /\ answer' = Some(out)
         /\ lifi' = IF out.ok
                    THEN [lifi EXCEPT !.run = "returned",
                            !.updates = Emit(@, TRUE, StatusSuccess)]
                    ELSE [lifi EXCEPT !.run = "raised",
                            !.updates = Emit(@, TRUE, StatusError(Val(out.error))),
                            !.raised = out.error]
    /\ UNCHANGED <<hookVars, quickVars, cacheVars, queryVars, ens, applied>>

\* the builds one behaviour of the route quoter makes
MaxRouteBuilds == 1

NextRoute ==
    \/ \E req \in RouteRequests : GetRoutesCall(req)
    \/ GetRoutesSettled
    \/ HandleExecute
    \/ ExecuteRouteSettled
    \/ \E in \in RouteBuildInputs : Len(calls) < MaxRouteBuilds /\ BuildIntent(in[1], in[2])
    \/ \E c \in 1..MaxCalls : BuildRouteSettled(c)
    \/ \E c \in 1..MaxCalls : BuildYieldSettled(c)
    \/ \E c \in 1..MaxCalls : BuildComposed(c)

SpecRoute == Init /\ [][NextRoute]_vars

(***************************************************************************)
(* The service functions that await nothing, applied to arguments of the   *)
(* caller's choice: applied holds the arguments and the result of the      *)
(* latest such call.                                                       *)
(***************************************************************************)
\* the opportunities compose is given: those of the sources, and ones whose
\* optional depositFunction and depositParams are set otherwise or not at all
ComposeTargets ==
    LET sourced == {OppAave, OppCompound, OppYearn, OppPendle, OppAaveOp,
                    OppMorphoMedium, OppSiloLow}
    IN sourced
       \cup {[y EXCEPT !.depositFunction = Null] : y \in sourced}
       \cup {[y EXCEPT !.depositFunction = Some("supply")] : y \in sourced}
       \cup {[y EXCEPT !.depositFunction = Some("")] : y \in sourced}
       \cup {[y EXCEPT !.depositParams = Null] : y \in sourced}

\* lifiService.composeIntentWithDeposit(request, targetYield)
Compose(request, targetYield) ==
    /\ applied' = [fn |-> "composeIntentWithDeposit",
                   args |-> <<request, targetYield>>,
                   result |-> Some(ComposeIntentWithDeposit(request, targetYield))]
    /\ answer' = Null
    /\ UNCHANGED <<hookVars, quickVars, cacheVars, queryVars, ens, lifi>>

\* 10^21, by its decimal digits
Sextillion == <<"1">> \o [i \in 1..21 |-> "0"]

\* the fields of UserPreferences that the round trip copies one by one,
\* three ways
PreferenceBases ==
    {[preferredChains |-> <<>>, maxSlippageBps |-> DecimalDigits(1),
      defaultAction |-> "deposit", blacklistedProtocols |-> <<>>,
      autoRebalance |-> FALSE, notificationPrefs |-> JsonObject(<<>>)],
     [preferredChains |-> <<"base", "arbitrum">>, maxSlippageBps |-> DecimalDigits(50),
      defaultAction |-> "bridge", blacklistedProtocols |-> <<"pendle">>,
      autoRebalance |-> TRUE, notificationPrefs |-> JsonObject(<<"email=a@b.c">>)],
     [preferredChains |-> <<"base", "arbitrum">>, maxSlippageBps |-> DecimalDigits(1000),
      defaultAction |-> "swap", blacklistedProtocols |-> <<>>,
      autoRebalance |-> TRUE, notificationPrefs |-> JsonObject(<<>>)]}

\* UserPreferences a caller can hold: lower-case chain names, maxSlippageBps
\* an integer of 1..1000, minLiquidityUsd an integer >= 0; the two Numbers by
\* their decimal digits
ValidPreferences ==
    {[preferredChains      |-> base.preferredChains,
      riskTolerance        |-> risk,
      maxSlippageBps       |-> base.maxSlippageBps,
      defaultAction        |-> base.defaultAction,
      whitelistedProtocols |-> whitelist,
      blacklistedProtocols |-> base.blacklistedProtocols,
      minLiquidityUsd      |-> liquidity,
      strategyFollow       |-> follow,
      autoRebalance        |-> base.autoRebalance,
      notificationPrefs    |-> base.notificationPrefs]
       : base \in PreferenceBases,
         risk \in {"conservative", "moderate", "aggressive"},
         whitelist \in {<<>>, <<"aave-v3", "pendle">>},
         liquidity \in {DecimalDigits(0), DecimalDigits(250000), Sextillion},
         follow \in {Null, Some("alice.eth"), Some("")}}

\* ensService.parsePreferences(ensService.serializePreferences(prefs))
SerializeAndParse(prefs) ==
    /\ applied' = [fn |-> "serializePreferences",
                   args |-> <<prefs>>,
                   result |-> Some(ParsePreferences(SerializePreferences(prefs)))]
    /\ answer' = Null
    /\ UNCHANGED <<hookVars, quickVars, cacheVars, queryVars, ens, lifi>>

NextPure ==
    \/ \E request \in RouteRequests, targetYield \in ComposeTargets :
          Compose(request, targetYield)
    \/ \E prefs \in ValidPreferences : SerializeAndParse(prefs)

SpecPure == Init /\ [][NextPure]_vars

(***************************************************************************)
(* Helpers of the properties                                               *)
(***************************************************************************)
Last(seq) == seq[Len(seq)]

Range(seq) == {seq[i] : i \in 1..Len(seq)}

CallIds == 1..Len(calls)

\* the call issued in this step, if any
IssuedNow(kind) == Len(calls') = Len(calls) + 1 /\ calls'[Len(calls')].kind = kind

\* call c ran one of its continuations in this step
Continued(c, pc) == c \in CallIds /\ calls[c].pc = pc /\ calls'[c].pc # pc

\* the value or error the awaited call delivered to the continuation of this step
Delivered == Val(answer')

(***************************************************************************)
(* C1: executeIntent called while route or composedIntent is null sets     *)
(* step to failed with error 'No intent to execute', returns at once       *)
(* without ever setting step executing, and makes no execution call.       *)
(***************************************************************************)
C1_NoIntentToExecute ==
    [][ (IssuedNow("exec") /\ (state.route = Null \/ state.composedIntent = Null))
        => /\ state'.step = "failed"
           /\ state'.error = Some("No intent to execute")
           /\ calls'[Len(calls')].pc = "done"
           /\ calls'[Len(calls')].wrote = <<"failed">>
           /\ log' = log ]_vars

\* C1 witness: an executeIntent call found a route but no composed intent
\* and failed at its guard
C1_Witness ==
    /\ cause = "nothing-to-execute"
    /\ state.step = "failed"
    /\ state.route # Null
    /\ state.composedIntent = Null

(***************************************************************************)
(* C2: the steps one buildIntent call sets are a prefix of fetching-route, *)
(* finding-yield, composing, ready, optionally ended by failed;            *)
(* finding-yield is set only with the route obtained, composing only with  *)
(* a target yield that is not blacklisted, ready only with the composed    *)
(* intent; executing and completed are never set by it; the call has ended *)
(* exactly when its last step is ready or failed, until then it waits for  *)
(* the collaborator call of its last step, and every collaborator call     *)
(* that returns or throws makes it set exactly one more step.              *)
(***************************************************************************)
BuildOrder == <<"fetching-route", "finding-yield", "composing", "ready">>

BuildTraces ==
    {SubSeq(BuildOrder, 1, n) : n \in 1..4}
    \cup {Append(SubSeq(BuildOrder, 1, n), "failed") : n \in 1..3}

C2_TraceOk ==
    \A c \in CallIds :
        calls[c].kind = "build" =>
            /\ calls[c].wrote \in BuildTraces
            /\ (calls[c].pc = "done") <=> (Last(calls[c].wrote) \in {"ready", "failed"})
            /\ (calls[c].pc = "route") <=> (Last(calls[c].wrote) = "fetching-route")
            /\ (calls[c].pc = "yield") <=> (Last(calls[c].wrote) = "finding-yield")
            /\ (calls[c].pc = "compose") <=> (Last(calls[c].wrote) = "composing")

C2_StepOk ==
    \A c \in 1..Len(calls') :
        (calls'[c].kind = "build" /\ (c \in CallIds => calls'[c] # calls[c])) =>
            /\ state'.step = Last(calls'[c].wrote)
            /\ c \in CallIds =>
                  /\ answer' # Null
                  /\ Len(calls'[c].wrote) = Len(calls[c].wrote) + 1
            /\ state'.step = "finding-yield" =>
                  /\ Delivered.ok /\ Delivered.value # Null
                  /\ state'.route = Delivered.value
            /\ state'.step = "composing" =>
                  /\ Delivered.ok /\ Delivered.value # Null
                  /\ state'.targetYield = Delivered.value
                  /\ ~Includes(Val(calls[c].prefs).blacklistedProtocols,
                               Val(Delivered.value).protocolSlug)
            /\ state'.step = "ready" => state'.composedIntent # Null

C2_BuildStepSequence == []C2_TraceOk /\ [][C2_StepOk]_vars

\* C2 witness: a build call went through all four steps and ended in ready
C2_Witness ==
    \E c \in CallIds :
        /\ calls[c].kind = "build" /\ calls[c].pc = "done"
        /\ calls[c].wrote = BuildOrder
        /\ state.step = "ready"

(***************************************************************************)
(* C3: when the best yield match of a build has a protocolSlug contained   *)
(* in the caller's blacklistedProtocols, the build ends with step failed   *)
(* and an error message naming that protocol, without having set composing *)
(* or ready and without a compose call.                                    *)
(***************************************************************************)
C3_Step ==
    \A c \in CallIds :
        ( /\ calls[c].kind = "build"
          /\ Continued(c, "yield")
          /\ Delivered.ok /\ Delivered.value # Null
          /\ Includes(Val(calls[c].prefs).blacklistedProtocols,
                      Val(Delivered.value).protocolSlug) )
        => /\ state'.step = "failed"
           /\ state'.error =
                 Some("The best yield opportunity is from "
                      \o Val(Delivered.value).protocol
                      \o ", which is in your blacklist")
           /\ calls'[c].pc = "done"
           /\ calls'[c].wrote = <<"fetching-route", "finding-yield", "failed">>
           /\ [op |-> "compose", call |-> c] \notin log'

C3_BlacklistedBestAborts == [][C3_Step]_vars

\* C3 witness: a build failed on a blacklisted best match (Pendle) although the
\* list it came from holds a lower-ranked opportunity that is not blacklisted
C3_Witness ==
    /\ cause = "blacklisted"
    /\ state.step = "failed"
    /\ answer = Some(Return(Some(OppPendle)))
    /\ \E all \in FetchAllResults :
          /\ Len(all) > 1
          /\ all[1] = OppPendle
          /\ all[2].protocolSlug # "pendle" /\ all[2].chainId = OppPendle.chainId

(***************************************************************************)
(* C4: on every path that composes or executes an intent (buildIntent and  *)
(* useQuickIntent.execute) the target's protocolSlug is not in the         *)
(* caller's blacklistedProtocols: the caller has rejected such a target    *)
(* before compose is called.                                               *)
(***************************************************************************)
C4_NoBlacklistedCompose ==
    \A c \in CallIds :
        ([op |-> "compose", call |-> c] \in log /\ calls[c].pc \in {"compose", "exec"})
        => ~Includes(Val(calls[c].prefs).blacklistedProtocols,
                     Val(calls[c].targetYield).protocolSlug)

(***************************************************************************)
(* C5: once executeIntent has passed its guard step is executing; from     *)
(* executing, short of a reset, step stays executing until the execution   *)
(* call of that executeIntent settles, and then becomes completed exactly  *)
(* when the call returned a completed execution, failed with the raised    *)
(* message as error exactly when it raised.                                *)
(***************************************************************************)
C5_Step ==
    /\ (IssuedNow("exec") /\ state.route # Null /\ state.composedIntent # Null)
          => state'.step = "executing"
    /\ (state.step = "executing" /\ state' # initialState)
          => \/ state'.step = "executing"
             \/ \E c \in CallIds :
                   /\ calls[c].kind = "exec" /\ Continued(c, "exec")
                   /\ \/ /\ Delivered.ok
                         /\ state'.step = "completed"
                         /\ Val(state'.execution).status = "completed"
                      \/ /\ ~Delivered.ok
                         /\ state'.step = "failed"
                         /\ state'.error =
                               Some(IF Val(Delivered.error).isError
                                    THEN Val(Delivered.error).message
                                    ELSE "Execution failed")

C5_ExecutingUntilSettled == [][C5_Step]_vars

(***************************************************************************)
(* C6: once step is failed, the intent state changes only in a step in     *)
(* which the caller issues a buildIntent or executeIntent call or a reset: *)
(* nothing progresses or retries on its own after a failure.               *)
(***************************************************************************)
C6_Step ==
    (state.step = "failed" /\ state' # state)
    => \/ IssuedNow("build")
       \/ IssuedNow("exec")
       \/ (state' = initialState /\ calls' = calls)

C6_NoProgressAfterFailure == [][C6_Step]_vars

(***************************************************************************)
(* C7: in every reachable state step = failed implies that error is set,   *)
(* and each failure condition (no route, no qualifying yield, blacklisted  *)
(* target, nothing to execute, execution raised) has its own message,      *)
(* different from the message of every other condition.                    *)
(***************************************************************************)
C7_Conditions ==
    {"no-route", "no-yield", "blacklisted", "nothing-to-execute", "execution-raised"}

C7_MessagesOf(condition) ==
    CASE condition = "no-route" -> {"No route found for this intent"}
      [] condition = "no-yield" ->
            {"No yield opportunities found matching your criteria on the destination chain"}
      [] condition = "blacklisted" ->
            {"The best yield opportunity is from " \o o.protocol
                \o ", which is in your blacklist"
               : o \in {OppAave, OppCompound, OppYearn, OppPendle, OppAaveOp}}
      [] condition = "nothing-to-execute" -> {"No intent to execute"}
      [] condition = "execution-raised" ->
            {e.message : e \in {x \in ExecuteErrors : x.isError}}
            \cup {"Execution failed"}

C7_FailedHasSpecificError ==
    state.step = "failed" =>
        /\ state.error # Null
        /\ cause \in C7_Conditions \cup {"route-raised", "yield-raised"}
        /\ cause \in C7_Conditions =>
              /\ Val(state.error) \in C7_MessagesOf(cause)
              /\ \A other \in C7_Conditions \ {cause} :
                    Val(state.error) \notin C7_MessagesOf(other)

\* C7 witness: the execution call raised and the state is failed with its message
C7_Witness ==
    /\ state.step = "failed"
    /\ cause = "execution-raised"
    /\ state.error = Some("User rejected the request")

(***************************************************************************)
(* C8: when the execution call raises during executeIntent, the state      *)
(* moves to failed, state.execution holds an execution record with status  *)
(* failed and its error field set, and an error event is emitted on the    *)
(* step-callback stream.                                                   *)
(***************************************************************************)
C8_Step ==
    \A c \in CallIds :
        (calls[c].kind = "exec" /\ Continued(c, "exec") /\ ~Delivered.ok)
        => /\ state'.step = "failed"
           /\ state'.execution # Null
           /\ Val(state'.execution).status = "failed"
           /\ Val(state'.execution).error # Null
           /\ Len(events') > 0 /\ Last(events') = "error"

C8_RaiseCapturedInExecution == [][C8_Step]_vars

(***************************************************************************)
(* C9, C10 : the cache of fetchAllYields                                   *)
(***************************************************************************)
FetchIds == 1..Len(fetches)

FetchIssued == Len(fetches') = Len(fetches) + 1

FetchContinued(c) ==
    /\ c \in FetchIds
    /\ Len(fetches') = Len(fetches)
    /\ fetches[c].pc = "fetching"
    /\ fetches'[c].pc # "fetching"

C10_Step ==
    /\ FetchIssued =>
          LET c == Len(fetches')
              stale == cache = Null \/ now - cache[1].timestamp >= 300000
          IN /\ (fetches'[c].requests > 0) <=> stale
             /\ stale => fetches'[c].pc = "fetching" /\ fetches'[c].result = Null
             /\ ~stale => /\ fetches'[c].pc = "done"
                          /\ fetches'[c].result = <<cache[1].data>>
             /\ cache' = cache
    /\ \A c \in FetchIds :
          (FetchContinued(c) /\ fetches'[c].pc = "done") =>
              /\ cache' # Null
              /\ <<cache'[1].data>> = fetches'[c].result
              /\ cache'[1].timestamp = now
    /\ clears' # clears => cache' = Null

C10_RequestsIffAbsentOrExpired == [][C10_Step]_vars

\* an entry has expired, the next call has refreshed it
C10_Witness ==
    /\ Len(fetches) = 2
    /\ fetches[2].cached # Null
    /\ fetches[2].startedAt - fetches[2].cached[1].timestamp = 300000
    /\ fetches[2].requests > 0
    /\ fetches[2].pc = "done"
    /\ cache # Null
    /\ cache[1].timestamp = fetches[2].startedAt
    /\ <<cache[1].data>> = fetches[2].result
    /\ fetches[2].result # fetches[1].result

(***************************************************************************)
(* C11 : concurrent misses                                                 *)
(***************************************************************************)
\* number of occurrences of x in seq
Count(seq, x) == Cardinality({i \in 1..Len(seq) : seq[i] = x})

\* the same elements, each as many times
SameElements(a, b) ==
    \A x \in Range(a) \cup Range(b) : Count(a, x) = Count(b, x)

\* C11: when fetchAllYields calls have missed the cache concurrently, each
\* settles on the answers to its own requests alone: it returns the list
\* made of them, writes it to the cache whatever entry another call has
\* written meanwhile (so the entry is that of the call that completed last),
\* fails only if its own DefiLlama fetch failed, and leaves the other calls
\* as they are; a call in flight can always settle.
C11_Step ==
    \A c \in FetchIds :
        FetchContinued(c) =>
            /\ answer' # Null
            /\ fetches[c].requests > 0
            /\ \A d \in FetchIds \ {c} : fetches'[d] = fetches[d]
            /\ IF answer'[1].defiLlama.ok
               THEN /\ fetches'[c].pc = "done"
                    /\ SameElements(fetches'[c].result[1],
                                    answer'[1].defiLlama.value
                                        \o FetchYearnYields(answer'[1].yearn))
                    /\ cache' # Null
                    /\ cache'[1].data = fetches'[c].result[1]
                    /\ cache'[1].writer = c
               ELSE /\ fetches'[c].pc = "failed"
                    /\ fetches'[c].result = Null
                    /\ cache' = cache

C11_NotBlocked ==
    \A c \in FetchIds : fetches[c].pc = "fetching" => ENABLED FetchAllSettled(c)

C11_ConcurrentMissesLastWriterWins == []C11_NotBlocked /\ [][C11_Step]_vars

\* two calls missed together, the second completed first and the first
\* overwrote its entry with another list
C11_Witness ==
    /\ Len(fetches) = 2 /\ clears = 0
    /\ fetches[1].pc = "done" /\ fetches[1].entry = 1
    /\ fetches[2].pc = "done" /\ fetches[2].entry = 2
    /\ fetches[1].startedAt = fetches[2].startedAt
    /\ fetches[1].result # fetches[2].result
    /\ cache # Null
    /\ cache[1].writer = 1
    /\ cache[1].data = fetches[1].result[1]

(***************************************************************************)
(* C12 : a Yearn request that fails                                        *)
(***************************************************************************)
\* what the Yearn chain chainId is due to contribute for its response
C12_ChainOpps(chainId, response) ==
    IF response.thrown \/ ~response.ok
    THEN <<>>
    ELSE LET v3 == SelectSeq(response.vaults,
                             LAMBDA v : v.type = "v3" /\ v.kind = "Vault")
         IN [i \in 1..Len(v3) |->
                [protocolSlug |-> "yearn-v3", protocol |-> "Yearn V3",
                 chainId |-> chainId, token |-> v3[i].symbol, apy |-> v3[i].apy,
                 tvlUsd |-> v3[i].tvl, riskLevel |-> "medium",
                 vaultAddress |-> v3[i].address,
                 depositFunction |-> <<"deposit">>,
                 depositParams |-> << <<"assets", "receiver">> >>]]

C12_YearnOpps(responses) ==
    C12_ChainOpps(1, responses[1]) \o C12_ChainOpps(10, responses[10])
        \o C12_ChainOpps(137, responses[137]) \o C12_ChainOpps(42161, responses[42161])
        \o C12_ChainOpps(8453, responses[8453])

\* C12: whatever Yearn requests fail (fetch rejects, or the response is not
\* ok), a fetchAllYields call whose DefiLlama fetch returned succeeds, and
\* its list is made of all the DefiLlama opportunities, all the v3 vaults of
\* every Yearn chain that answered, and nothing for the chains that failed.
C12_Step ==
    \A c \in FetchIds :
        (FetchContinued(c) /\ retry.pc = "returned") =>
            /\ fetches'[c].pc = "done"
            /\ fetches'[c].error = Null
            /\ SameElements(fetches'[c].result[1],
                            retry.value[1] \o C12_YearnOpps(answer'[1].yearn))

C12_YearnFailsSoft == [][C12_Step]_vars

\* the request for mainnet was rejected, Optimism and Base still contribute
C12_Witness ==
    /\ answer # Null
    /\ "yearn" \in DOMAIN answer[1]
    /\ answer[1].yearn[1].thrown
    /\ answer[1].defiLlama.ok
    /\ \E c \in FetchIds :
          /\ fetches[c].pc = "done" /\ fetches[c].entry = c
          /\ Len(fetches[c].result[1]) = Len(answer[1].defiLlama.value) + 2
          /\ \E i \in 1..Len(fetches[c].result[1]) :
                /\ fetches[c].result[1][i].protocolSlug = "yearn-v3"
                /\ fetches[c].result[1][i].chainId = 10
          /\ cache # Null /\ cache[1].writer = c

(***************************************************************************)
(* C13 : DefiLlama fails on the initial attempt and on both retries        *)
(***************************************************************************)
\* C13: when the DefiLlama fetch has failed three times (the initial attempt
\* and both retries), fetchAllYields fails with the error of the third
\* attempt; it returns no list and stores none, whatever Yearn answered. A
\* fetchAllYields call fails in no other case.
C13_Step ==
    \A c \in FetchIds :
        FetchContinued(c) =>
            /\ (retry.pc = "thrown") <=> (fetches'[c].pc = "failed")
            /\ retry.pc = "thrown" =>
                  /\ retry.invocations = 3
                  /\ Len(retry.errors) = 3
                  /\ fetches[c].retries = 2
                  /\ fetches'[c].error = Some(retry.errors[3])
                  /\ fetches'[c].result = Null
                  /\ cache' = cache

C13_DefiLlamaFailsHard == [][C13_Step]_vars

\* the call failed after both retries although Yearn had a vault on Base
C13_Witness ==
    /\ answer # Null
    /\ "yearn" \in DOMAIN answer[1]
    /\ answer[1].yearn[8453].ok
    /\ answer[1].yearn[8453].vaults # <<>>
    /\ \E c \in FetchIds :
          /\ fetches[c].pc = "failed"
          /\ fetches[c].retries = 2
          /\ fetches[c].error = Some(Err("DefiLlama API error: 503"))
          /\ fetches[c].result = Null
    /\ cache = Null

(***************************************************************************)
(* C14 : withRetry with maxRetries 2 and a base delay of 1000 ms           *)
(***************************************************************************)
\* the wait that follows the failure of invocation k
C14_Wait(k) == IF k = 1 THEN 1000 ELSE 2000

C14_AtMostThree == retry.invocations <= 3

C14_Step ==
    /\ retry'.invocations \in {retry.invocations, retry.invocations + 1, 0}
    \* a first invocation starts the wrapper; invocation k + 1 is made only
    \* when invocation k has failed and its wait has elapsed
    /\ retry'.invocations = retry.invocations + 1 =>
          \/ retry.pc = "idle" /\ retry.invocations = 0
          \/ /\ retry.pc = "sleeping"
             /\ Len(retry.errors) = retry.invocations
             /\ now >= retry.failedAt + C14_Wait(retry.invocations)
    \* the invocation in progress settles
    /\ (retry.pc = "invoking" /\ retry'.pc # "invoking") =>
          /\ answer' # Null
          /\ retry'.invocations = retry.invocations
          /\ IF answer'[1].ok
             THEN /\ retry'.pc = "returned"
                  /\ retry'.value = Some(answer'[1].value)
                  /\ retry'.errors = retry.errors
             ELSE /\ retry'.errors = Append(retry.errors, answer'[1].error[1])
                  /\ retry'.pc = IF retry.invocations = 3 THEN "thrown" ELSE "sleeping"
    \* once it has returned or thrown, the wrapper invokes nothing more: what
    \* it delivers is the value of the invocation that succeeded, or the
    \* third error
    /\ retry.pc \in {"returned", "thrown"} =>
          /\ retry'.pc \in {retry.pc, "idle"}
          /\ retry'.invocations \in {retry.invocations, 0}
          /\ retry.pc = "thrown" => RetryOutcome = Throw(retry.errors[3])
          /\ retry.pc = "returned" => RetryOutcome = Return(retry.value[1])

\* C14: withRetry invokes the function at most three times, invocation k + 1
\* only after invocation k failed and 1000 * 2 ^ (k - 1) ms went by; it
\* returns the first success at once, raises the third error after the third
\* failure, and always ends.
C14_RetryPolicy ==
    /\ []C14_AtMostThree
    /\ [][C14_Step]_vars
    /\ (RetryRunning ~> (retry.pc \in {"returned", "thrown"}))

\* three failures, the last one 3000 ms or more after the first
C14_Witness ==
    /\ retry.pc = "thrown"
    /\ retry.invocations = 3
    /\ Len(retry.errors) = 3
    /\ retry.errors[3] # retry.errors[1]
    /\ now >= 3000

(***************************************************************************)
(* C15 : the list of a cache miss                                          *)
(***************************************************************************)
C15_ApyDescending(l) ==
    \A i, j \in 1..Len(l) : i < j => l[i].apy >= l[j].apy

\* C15: the list a fetchAllYields call returns after fetching has as many
\* entries as DefiLlama and Yearn delivered together, each opportunity as
\* many times as the sources delivered it, in descending order of APY; the
\* same list is what the cache then holds.
C15_Step ==
    \A c \in FetchIds :
        (FetchContinued(c) /\ fetches'[c].pc = "done") =>
            LET delivered == answer'[1].defiLlama.value \o C12_YearnOpps(answer'[1].yearn)
                returned  == fetches'[c].result[1]
            IN /\ Len(returned) = Len(delivered)
               /\ SameElements(returned, delivered)
               /\ C15_ApyDescending(returned)
               /\ cache' # Null
               /\ cache'[1].data = returned

RECURSIVE IsSubSequence(_, _)
IsSubSequence(r, l) ==
    IF r = <<>> THEN TRUE
    ELSE IF l = <<>> THEN FALSE
    ELSE IF Head(r) = Head(l) THEN IsSubSequence(Tail(r), Tail(l))
    ELSE IsSubSequence(r, Tail(l))

\* the list of the cache entry the fetchAllYields call of the query returned:
\* the one the call that wrote the entry built
QueryList == fetches[fetches[query.fetch].entry].result[1]

\* C16: whatever the parameters, what queryYields returns is a sub-sequence
\* of the list its fetchAllYields call returned, which is the list of the
\* cache entry of that generation: same opportunities, same relative order.
C16_ResultIsSubSequence ==
    query.pc = "done" =>
        /\ fetches[query.fetch].pc = "done"
        /\ fetches[query.fetch].result[1] = QueryList
        /\ IsSubSequence(query.result[1], QueryList)
        /\ C15_ApyDescending(query.result[1])

\* a query on the second generation of the cache keeps two of its entries
C16_Witness ==
    /\ query.pc = "done" /\ query.kind = "query"
    /\ query.fetch = 2 /\ fetches[2].entry = 2 /\ fetches[2].epoch = 1
    /\ fetches[1].pc = "done" /\ fetches[1].result # fetches[2].result
    /\ TruthyNum(query.params.chainId)
    /\ Len(query.result[1]) >= 2
    /\ Len(query.result[1]) < Len(QueryList)

(***************************************************************************)
(* C17 : the blacklist wins                                                *)
(***************************************************************************)
\* C17: when the blacklist of a query is not empty, no opportunity it returns
\* has a protocolSlug of the blacklist, be the slug whitelisted too or the
\* risk level admitted.
C17_BlacklistPrecedence ==
    (query.pc = "done" /\ query.params.blacklistedProtocols # <<>>) =>
        \A i \in 1..Len(query.result[1]) :
            /\ ~Includes(query.params.blacklistedProtocols,
                         query.result[1][i].protocolSlug)
            /\ query.result[1][i].protocolSlug # "pendle"

\* Pendle is whitelisted, blacklisted, admitted by the tolerance and listed
C17_Witness ==
    /\ query.pc = "done"
    /\ Includes(query.params.whitelistedProtocols, "pendle")
    /\ Includes(query.params.blacklistedProtocols, "pendle")
    /\ query.params.riskTolerance = Some("aggressive")
    /\ Includes(QueryList, OppPendle)
    /\ query.result[1] # <<>>

(***************************************************************************)
(* C18 : the filters are conjunctive and the limit comes last              *)
(***************************************************************************)
\* the levels each tolerance admits
C19_Allowed(tol) ==
    CASE tol = "conservative" -> {"low"}
      [] tol = "moderate"     -> {"low", "medium"}
      [] tol = "aggressive"   -> {"low", "medium", "high"}

\* y satisfies every filter that params p supply
C18_Matches(y, p) ==
    /\ p.chainId # Null => y.chainId = Val(p.chainId)
    /\ p.token # Null => toUpperCase(y.token) = toUpperCase(Val(p.token))
    /\ p.minApy # Null => y.apy >= Val(p.minApy)
    /\ p.maxApy # Null => y.apy <= Val(p.maxApy)
    /\ p.minTvlUsd # Null => y.tvlUsd >= Val(p.minTvlUsd)
    /\ p.riskTolerance # Null => y.riskLevel \in C19_Allowed(Val(p.riskTolerance))
    /\ p.whitelistedProtocols # <<>> =>
          Includes(MapToLowerCase(p.whitelistedProtocols), y.protocolSlug)
    /\ p.blacklistedProtocols # <<>> =>
          ~Includes(MapToLowerCase(p.blacklistedProtocols), y.protocolSlug)

C18_Expected(l, p) ==
    LET matching == SelectSeq(l, LAMBDA y : C18_Matches(y, p))
    IN IF p.limit = Null \/ Val(p.limit) >= Len(matching)
       THEN matching
       ELSE SubSeq(matching, 1, Val(p.limit))

\* C18: queryYields returns the first `limit` entries (all without a limit)
\* of the cached list restricted to the opportunities that satisfy every
\* filter supplied, so at most n entries when a limit n is supplied.
C18_ConjunctiveFiltersThenLimit ==
    (query.pc = "done" /\ query.kind = "query") =>
        /\ query.result[1] = C18_Expected(QueryList, query.params)
        /\ query.params.limit # Null => Len(query.result[1]) <= Val(query.params.limit)

(***************************************************************************)
(* C19 : the risk levels a tolerance admits                                *)
(***************************************************************************)
C19_Elements(l) == {l[i] : i \in 1..Len(l)}

C19_With(tol) ==
    C19_Elements(QueryYields(QueryList, [query.params EXCEPT !.riskTolerance = Some(tol)]))

\* C19: conservative admits low, moderate low and medium, aggressive low,
\* medium and high; a query without a limit returns, for conservative, a
\* subset of what it returns for moderate, and for moderate a subset of what
\* it returns for aggressive; every opportunity returned has a level that the
\* tolerance asked for admits.
C19_RiskLevelsNested ==
    /\ C19_Elements(AllowedRiskLevels("conservative")) = {"low"}
    /\ C19_Elements(AllowedRiskLevels("moderate")) = {"low", "medium"}
    /\ C19_Elements(AllowedRiskLevels("aggressive")) = {"low", "medium", "high"}
    /\ query.pc = "done" =>
          /\ query.params.riskTolerance # Null =>
                \A i \in 1..Len(query.result[1]) :
                    query.result[1][i].riskLevel
                        \in C19_Allowed(Val(query.params.riskTolerance))
          /\ ~TruthyNum(query.params.limit) =>
                /\ C19_With("conservative") \subseteq C19_With("moderate")
                /\ C19_With("moderate") \subseteq C19_With("aggressive")
                /\ query.params.riskTolerance # Null =>
                      C19_Elements(query.result[1])
                          = C19_With(Val(query.params.riskTolerance))

\* a moderate query over a list with a high and a medium opportunity
C19_Witness ==
    /\ query.pc = "done" /\ query.kind = "query"
    /\ query.params.riskTolerance = Some("moderate")
    /\ query.params.limit = Null
    /\ Includes(QueryList, OppPendle)
    /\ Includes(QueryList, OppYearn)
    /\ Includes(query.result[1], OppYearn)
    /\ ~Includes(query.result[1], OppPendle)
    /\ C19_With("conservative") # C19_With("moderate")
    /\ C19_With("moderate") # C19_With("aggressive")

(***************************************************************************)
(* C20 : getBestYield                                                      *)
(***************************************************************************)
\* the opportunities of l that match the arguments of getBestYield
C20_Matching(l, p) ==
    SelectSeq(l, LAMBDA y :
        /\ y.chainId = Val(p.chainId)
        /\ toUpperCase(y.token) = toUpperCase(Val(p.token))
        /\ p.riskTolerance # Null => y.riskLevel \in C19_Allowed(Val(p.riskTolerance))
        /\ p.minTvlUsd # Null => y.tvlUsd >= Val(p.minTvlUsd))

\* C20: getBestYield returns the first opportunity of the cached list that
\* matches chain, token, risk tolerance and minimum TVL, which has the
\* highest APY among those that match, and null exactly when none matches.
C20_BestIsFirstMatch ==
    (query.pc = "done" /\ query.kind = "best") =>
        LET matching == C20_Matching(QueryList, query.params)
        IN /\ (query.best = Null) <=> (matching = <<>>)
           /\ query.best # Null =>
                 /\ query.best = Some(matching[1])
                 /\ \A i \in 1..Len(matching) : matching[i].apy <= query.best[1].apy

(***************************************************************************)
(* The preference resolver                                                 *)
(***************************************************************************)
\* the reads of the latest getProfile call made with the given operation
LookupsOf(op) == SelectSeq(ens.lookups, LAMBDA l : l.op = op)

\* C21: every handle the resolver looks up, the one passed to it and the one
\* read from a strategyFollow record, matches a recognized suffix before any
\* read is sent to the naming service; a handle that does not match is
\* rejected without any read.
C21_HandlesValidatedBeforeLookup ==
    /\ \A i \in 1..Len(ens.lookups) : isValidEnsName(ens.lookups[i].name)
    /\ (ens.pc # "idle" /\ ~isValidEnsName(ens.input)) => ens.lookups = <<>>

\* the latest step settled the address read of getProfile
C22_AddressStep == ens.pc = "address" /\ ens'.pc # "address"

\* the address read comes first and is the only one of its kind, and text
\* records and the avatar are read only once an address is there
C22_AddressFirst ==
    /\ ens.lookups # <<>> =>
         /\ ens.lookups[1].op = "getEnsAddress"
         /\ \A i \in 2..Len(ens.lookups) : ens.lookups[i].op # "getEnsAddress"
    /\ Len(ens.lookups) > 1 => ens.address # Null

\* C22: when the handle resolves to no address, or the address read fails,
\* getProfile returns null and reads no text record, no delegate record and
\* no avatar; the address read precedes every record read.
C22_NoAddressNoRecordFetch ==
    [][/\ (C22_AddressStep /\ (~Delivered.ens.ok \/ Delivered.ens.value = Null)) =>
             /\ ens'.pc = "done"
             /\ ens'.profile = Null
             /\ ens'.raised = Null
             /\ ens'.lookups = ens.lookups
             /\ Len(ens'.lookups) = 1
       /\ C22_AddressFirst'
       /\ (ens'.pc = "done" /\ ens'.profile = Null) => Len(ens'.lookups) = 1]_vars

\* the address read failed and getProfile returned null after that one read
C22_Witness ==
    /\ ens.pc = "done"
    /\ ens.profile = Null
    /\ ~ens.hook
    /\ answer # Null
    /\ ~Val(answer).ens.ok
    /\ LookupsOf("getEnsAddress") = ens.lookups

\* C23: no failed read of the naming service makes getProfile raise: a failed
\* address read, text-record read (of the handle or of the followed handle)
\* or avatar read ends in a null profile or in schema defaults, never in an
\* exception.
C23_GetProfileNeverRaises ==
    /\ ens.pc # "raised"
    /\ ens.raised = Null

\* the reads of the latest call: the address, the ten records of the handle,
\* then the ten records of the handle its strategyFollow record names, then
\* the avatar; nothing is read for any other handle
C24_OneLevel ==
    LET texts == LookupsOf("getEnsText")
        n == Len(ENS_RECORD_KEYS)
    IN /\ Len(texts) <= 2 * n
       /\ Len(ens.lookups) <= 2 * n + 2
       /\ \A i \in 1..Len(texts) :
            IF i <= n
            THEN texts[i].name = ens.name
            ELSE /\ ens.records # Null
                 /\ HasRecord(Val(ens.records), K_strategyFollow)
                 /\ texts[i].name = NormalizeName(Val(Val(ens.records)[K_strategyFollow]))
       /\ (ens.pc = "done" /\ ens.profile # Null /\ Val(ens.profile).isFollowingStrategy) =>
            /\ Len(texts) = 2 * n
            /\ Val(ens.profile).followedStrategyOwner = Val(ens.records)[K_strategyFollow]

C24_InFlight == ens.pc \in {"address", "records", "followed", "avatar"}

\* C24: delegate resolution goes exactly one level and always terminates: the
\* strategyFollow record of the followed handle is never followed, so the
\* reads of one call are bounded even when the records form a cycle or a
\* handle follows itself.
C24_OneLevelAndTerminates ==
    /\ []C24_OneLevel
    /\ C24_InFlight ~> EnsSettled

\* alice.eth follows bob.eth, whose own strategyFollow record names alice.eth,
\* and the profile was returned
C24_Witness ==
    /\ ens.pc = "done"
    /\ ens.profile # Null
    /\ ens.name = "alice.eth"
    /\ Val(ens.profile).followedStrategyOwner = Some("bob.eth")
    /\ Val(ens.followedRecords)[K_strategyFollow] = Some("alice.eth")
    /\ Val(ens.profile).preferences.strategyFollow = Some("alice.eth")

\* getProfile returned a profile
C25_Returned == ens.pc = "done" /\ ens.profile # Null

\* C25: when the handle resolves and its strategyFollow record names d, the
\* preferences of the profile are parsePreferences of the records of d and of
\* nothing else, isFollowingStrategy is true and followedStrategyOwner is d;
\* without a strategyFollow record the preferences are parsePreferences of
\* the handle's own records, isFollowingStrategy is false and
\* followedStrategyOwner is unset.
C25_PreferencesSource ==
    C25_Returned =>
        LET p == Val(ens.profile)
            own == Val(ens.records)
        IN IF own[K_strategyFollow] # Null
           THEN /\ ens.followedRecords # Null
                /\ p.preferences = ParsePreferences(Val(ens.followedRecords))
                /\ p.isFollowingStrategy
                /\ p.followedStrategyOwner = own[K_strategyFollow]
                /\ SubSeq(LookupsOf("getEnsText"), Len(ENS_RECORD_KEYS) + 1,
                          Len(LookupsOf("getEnsText")))
                     = TextLookups(Val(own[K_strategyFollow]))
           ELSE /\ ens.followedRecords = Null
                /\ p.preferences = ParsePreferences(own)
                /\ ~p.isFollowingStrategy
                /\ p.followedStrategyOwner = Null

\* alice.eth, whose own records say conservative and 50 bps, follows bob.eth,
\* whose only record is a slippage of 1000 bps: the profile has bob.eth's
\* slippage and the default risk tolerance
C25_Witness ==
    /\ C25_Returned
    /\ Val(ens.profile).followedStrategyOwner = Some("bob.eth")
    /\ Val(ens.records)[K_riskTolerance] = Some("conservative")
    /\ Val(ens.records)[K_maxSlippageBps] = Some("50")
    /\ Val(ens.profile).preferences.riskTolerance = "moderate"
    /\ Val(ens.profile).preferences.maxSlippageBps = 1000

(***************************************************************************)
(* parsePreferences                                                        *)
(***************************************************************************)
\* the record sets the latest call has read: the handle's own, the followed
RecordsRead ==
    {Val(r) : r \in {ens.records, ens.followedRecords} \ {Null}}

\* the integer a text denotes when it is a decimal integer throughout
C27_RecordInteger(text) ==
    LET cs == Chars[text]
        negative == cs # <<>> /\ Head(cs) = "-"
        body == IF negative THEN Tail(cs) ELSE cs
    IN IF body = <<>> \/ \E i \in 1..Len(body) : body[i] \notin Digits
       THEN Null
       ELSE Some(IF negative THEN 0 - DigitsPrefix(body, 0) ELSE DigitsPrefix(body, 0))

\* a text with a character no number is written with
C27_NonNumeric(text) ==
    \E i \in 1..Len(Chars[text]) :
        Chars[text][i] \notin Digits \cup {"-", "+", ".", "e", " "}

\* C27: for every maxSlippageBps record the parsed preference lies in
\* 1..1000: it is the record's integer when that is within 1..1000, and the
\* default 100 otherwise (out of range, negative or non-numeric).
C27_SlippageInRange ==
    \A records \in RecordsRead :
        HasRecord(records, K_maxSlippageBps) =>
            LET text == Val(records[K_maxSlippageBps])
                parsed == ParsePreferences(records).maxSlippageBps
            IN /\ parsed \in 1..1000
               /\ C27_RecordInteger(text) # Null =>
                    parsed = IF Val(C27_RecordInteger(text)) \in 1..1000
                             THEN Val(C27_RecordInteger(text))
                             ELSE 100
               /\ C27_NonNumeric(text) => parsed = 100

\* the field of UserPreferences each record key feeds
C26_FieldOf ==
    (K_preferredChains      :> "preferredChains") @@
    (K_riskTolerance        :> "riskTolerance") @@
    (K_maxSlippageBps       :> "maxSlippageBps") @@
    (K_defaultAction        :> "defaultAction") @@
    (K_whitelistedProtocols :> "whitelistedProtocols") @@
    (K_blacklistedProtocols :> "blacklistedProtocols") @@
    (K_minLiquidityUsd      :> "minLiquidityUsd")

\* the text of a record is unparseable for its field: bad JSON or no array
\* for a list, no number or a number out of range, an unknown enum value
C26_Unparseable(key, text) ==
    CASE key \in {K_preferredChains, K_whitelistedProtocols, K_blacklistedProtocols} ->
           ~JSONParse(text).ok \/ ~IsArray(JSONParse(text).value)
      [] key = K_maxSlippageBps ->
           \/ C27_NonNumeric(text)
           \/ C27_RecordInteger(text) # Null /\ Val(C27_RecordInteger(text)) \notin 1..1000
      [] key = K_minLiquidityUsd ->
           \/ C27_NonNumeric(text)
           \/ C27_RecordInteger(text) # Null /\ Val(C27_RecordInteger(text)) < 0
      [] key = K_riskTolerance -> text \notin {"conservative", "moderate", "aggressive"}
      [] key = K_defaultAction -> text \notin {"deposit", "bridge", "swap"}

\* C26: for every set of records and every field whose record is
\* unparseable, parsePreferences gives that field its value in
\* DEFAULT_PREFERENCES and every other field the value it has when the
\* record is absent; no record makes parsing fail.
C26_PerFieldFallback ==
    \A records \in RecordsRead :
        \A key \in DOMAIN C26_FieldOf :
            (HasRecord(records, key) /\ C26_Unparseable(key, Val(records[key]))) =>
                LET parsed == ParsePreferences(records)
                    without == ParsePreferences([records EXCEPT ![key] = Null])
                IN /\ parsed[C26_FieldOf[key]] = DEFAULT_PREFERENCES[C26_FieldOf[key]]
                   /\ \A f \in DOMAIN parsed \ {C26_FieldOf[key]} : parsed[f] = without[f]

\* the records the preferences of the returned profile were parsed from
C28_Source ==
    IF Val(ens.profile).isFollowingStrategy
    THEN Val(ens.followedRecords)
    ELSE Val(ens.records)

C28_Conservative == <<"aave-v3", "compound-v3", "morpho", "spark">>

\* riskTolerance is conservative and there is no whitelistedProtocols record
C28_ConservativeByRisk ==
    /\ C25_Returned
    /\ C28_Source[K_riskTolerance] = Some("conservative")
    /\ ~HasRecord(C28_Source, K_whitelistedProtocols)

\* C28: with riskTolerance conservative and no whitelistedProtocols record the
\* effective whitelist is aave-v3, compound-v3, morpho, spark, and a query
\* with those preferences for a chain and a token returns only opportunities
\* of these four protocols with risk level low, by descending APY; a valid
\* whitelistedProtocols record replaces the whitelist derived from the risk
\* tolerance.
C28_ConservativeWhitelist ==
    /\ C28_ConservativeByRisk =>
         /\ Val(ens.profile).preferences.whitelistedProtocols = C28_Conservative
         /\ ens.found # Null =>
              LET results == Val(ens.found).results
              IN /\ \A i \in 1..Len(results) :
                      /\ Includes(C28_Conservative, results[i].protocolSlug)
                      /\ results[i].riskLevel = "low"
                      /\ results[i].chainId = Val(ens.found).chainId
                      /\ toUpperCase(results[i].token) = toUpperCase(Val(ens.found).token)
                 /\ C15_ApyDescending(results)
                 /\ IsSubSequence(results, Val(ens.found).all)
    /\ (/\ C25_Returned
        /\ HasRecord(C28_Source, K_whitelistedProtocols)
        /\ JSONParse(Val(C28_Source[K_whitelistedProtocols])).ok
        /\ IsArray(JSONParse(Val(C28_Source[K_whitelistedProtocols])).value)) =>
         Val(ens.profile).preferences.whitelistedProtocols
             = JSONParse(Val(C28_Source[K_whitelistedProtocols])).value.items

\* a conservative profile without a whitelist record queried a list holding
\* a medium-risk Morpho vault and a low-risk Silo vault besides Aave, and was
\* given Aave alone
C28_Witness ==
    /\ C28_ConservativeByRisk
    /\ ens.found # Null
    /\ Val(ens.found).all = <<OppMorphoMedium, OppSiloLow, OppAave>>
    /\ Val(ens.found).results = <<OppAave>>

(***************************************************************************)
(* The route quoter                                                        *)
(***************************************************************************)
\* the source or the destination token has no address on its chain
C29_Unmapped(req) ==
    \/ req.fromChain \notin DOMAIN TOKEN_ADDRESSES
    \/ toUpperCase(req.fromToken) \notin TOKEN_ADDRESSES[req.fromChain]
    \/ req.toChain \notin DOMAIN TOKEN_ADDRESSES
    \/ toUpperCase(req.toToken) \notin TOKEN_ADDRESSES[req.toChain]

\* C29: a route request whose source or destination token has no mapped
\* address on its chain fails at once with the input-validation error and
\* nothing is sent to the routing service; in buildIntent the build then
\* ends in failed with that error message.
C29_UnmappedTokenFailsFast ==
    [][/\ (lifi'.request # Null /\ C29_Unmapped(Val(lifi'.request))) =>
            /\ lifi'.pc = "thrown"
            /\ ~lifi'.sent
            /\ lifi'.response = Null
            /\ lifi'.error = Some(Err(TokenNotSupportedMsg(Val(lifi'.request))))
       /\ \A c \in CallIds :
            (calls[c].kind = "build" /\ calls[c].request # Null
               /\ C29_Unmapped(Val(calls[c].request))) =>
                /\ Logged("getRoutes", c) \notin log'
                /\ Continued(c, "route") =>
                     /\ state'.step = "failed"
                     /\ state'.error = Some(TokenNotSupportedMsg(Val(calls[c].request)))
                     /\ calls'[c].pc = "done"
                     /\ log' = log]_vars

\* a build whose destination token is unmapped has failed with the
\* validation message, and a getRoutes call for an unknown chain has thrown
C29_Witness ==
    /\ state.step = "failed"
    /\ state.error = Some(TokenNotSupportedMsg(ReqDestUnmapped))
    /\ log = {}
    /\ lifi.request = Some(ReqChainUnmapped)
    /\ lifi.pc = "thrown"

\* C30: getRoutes returns null, and does not throw, exactly when the routing
\* service returns no routes; otherwise the best route is the first of the
\* service's list and the list is passed on in the service's order; in
\* buildIntent a null route ends the build in failed and no yield source is
\* queried.
C30_NotFoundIffNoRoutes ==
    [][/\ lifi'.response # Null =>
            LET routes == Val(lifi'.response).routes
            IN /\ lifi'.pc = "returned"
               /\ lifi'.error = Null
               /\ lifi'.quote = Null <=> (routes = Null \/ Val(routes) = <<>>)
               /\ lifi'.quote # Null =>
                    /\ Val(lifi'.quote).routes = Val(routes)
                    /\ Val(lifi'.quote).bestRoute = Val(routes)[1]
       /\ \A c \in CallIds :
            (Continued(c, "route") /\ calls[c].kind = "build"
               /\ Delivered.ok /\ Delivered.value = Null) =>
                /\ state'.step = "failed"
                /\ state'.error = Some(NoRouteMsg)
                /\ calls'[c].pc = "done"
                /\ log' = log
                /\ Logged("getBestYield", c) \notin log']_vars

\* getRoutes passed on a list of two routes whose first is not the one with
\* the lowest id, and a build ended on a null route
C30_Witness ==
    /\ lifi.quote # Null
    /\ Len(Val(lifi.quote).routes) = 2
    /\ Val(lifi.quote).bestRoute.id = 2
    /\ state.step = "failed"
    /\ state.error = Some(NoRouteMsg)
    /\ cause = "no-route"

(***************************************************************************)
(* composeIntentWithDeposit                                                *)
(***************************************************************************)
\* C31: compose is a pure combination of its arguments that always succeeds:
\* every field of the request is in the composed intent unchanged, the vault
\* address and the expected APY are the opportunity's, the deposit function
\* is the opportunity's or 'deposit' when it has none, totalSteps is 2, and
\* no collaborator is called and no blacklist consulted.
C31_ComposeIsPureCombination ==
    [][applied'.fn = "composeIntentWithDeposit" =>
         LET request == applied'.args[1]
             targetYield == applied'.args[2]
         IN /\ applied'.result # Null
            /\ LET composed == Val(applied'.result)
               IN /\ \A f \in DOMAIN request : composed[f] = request[f]
                  /\ composed.targetVault.address = targetYield.vaultAddress
                  /\ composed.targetVault.protocol = targetYield.protocol
                  /\ composed.expectedApy = targetYield.apy
                  /\ composed.targetVault.depositFunction =
                        IF TruthyStr(targetYield.depositFunction)
                        THEN Val(targetYield.depositFunction) ELSE "deposit"
                  /\ composed.totalSteps = 2
            /\ log' = log
            /\ state' = state]_vars

\* an intent composed for Pendle, whose deposit function is 'supply', from a
\* request whose source token has no address
C31_Witness ==
    /\ applied.fn = "composeIntentWithDeposit"
    /\ applied.args[1] = ReqUnmapped
    /\ applied.args[2].protocolSlug = "pendle"
    /\ Val(applied.result).targetVault.depositFunction = "supply"
    /\ Val(applied.result).fromToken = "FOO"

(***************************************************************************)
(* executeRoute with a status callback                                     *)
(***************************************************************************)
\* the statuses of the values the callback was given
C32_Statuses(l) == [i \in 1..Len(l.updates) |-> l.updates[i].status]

\* C32: for each route execution with a status callback the statuses passed
\* are 'loading' first and then exactly one terminal event: 'success' if and
\* only if the provider's execute call returned, 'error' with the raised
\* message if and only if it raised, the error then being raised to the
\* caller; nothing follows the terminal event, and these events never change
\* the step of the intent.
C32_StatusSequence ==
    [][/\ lifi'.run = "none" => lifi'.updates = <<>>
       /\ lifi'.run = "pending" => C32_Statuses(lifi') = <<"loading">>
       /\ lifi'.run = "returned" =>
            /\ C32_Statuses(lifi') = <<"loading", "success">>
            /\ lifi'.raised = Null
       /\ lifi'.run = "raised" =>
            /\ C32_Statuses(lifi') = <<"loading", "error">>
            /\ lifi'.raised # Null
            /\ Last(lifi'.updates).error
                 = Some(ErrMessage(Val(lifi'.raised), ExecFallbackMsg))
       /\ (lifi.run = "pending" /\ lifi'.run # "pending") =>
            (lifi'.run = "returned" <=> Delivered.ok)
       /\ (lifi.run \in {"returned", "raised"} /\ lifi'.run = lifi.run) =>
            lifi'.updates = lifi.updates
       /\ lifi'.updates # lifi.updates => state' = state]_vars

\* the provider's execute call raised while a build stood at finding-yield:
\* the callback was given 'loading' and 'error', and the step is unchanged
C32_Witness ==
    /\ lifi.run = "raised"
    /\ C32_Statuses(lifi) = <<"loading", "error">>
    /\ Val(lifi.raised).isError
    /\ state.step = "finding-yield"

(***************************************************************************)
(* Overlapping calls on useIntent                                          *)
(***************************************************************************)
\* executeIntent passed its guard in this step and made the execution call
C33_Executes == IssuedNow("exec") /\ Last(calls').pc = "exec"

\* build call c ended in failed in this step
C33_BuildFailedNow(c) ==
    /\ c \in CallIds
    /\ calls[c].kind = "build"
    /\ calls[c].pc # "done"
    /\ calls'[c].pc = "done"
    /\ Last(calls'[c].wrote) = "failed"

\* C33: whenever executeIntent makes the execution call with (composedIntent,
\* route), both were produced by the same buildIntent call and that call
\* ended in ready: the state never pairs the route of one build with the
\* composedIntent of another, and a build that failed leaves no executable
\* route / composedIntent pair behind.
C33_ExecutesPairOfOneReadyBuild ==
    [][/\ C33_Executes =>
            /\ origin.route = origin.composedIntent
            /\ origin.route \in CallIds
            /\ Last(calls[origin.route].wrote) = "ready"
       /\ (state'.route # Null /\ state'.composedIntent # Null) =>
            origin'.route = origin'.composedIntent
       /\ \A c \in CallIds : C33_BuildFailedNow(c) => ExecGuardFails(state')]_vars

\* C34: in every reachable intent state, under any interleaving of
\* buildIntent, executeIntent, reset and their continuations, step = ready
\* implies that route, targetYield and composedIntent are all non-null, so
\* that canExecute is true exactly when step = ready.
C34_ReadyHasEverything ==
    /\ state.step = "ready" =>
          /\ state.route # Null
          /\ state.targetYield # Null
          /\ state.composedIntent # Null
    /\ canExecute <=> state.step = "ready"

\* a continuation of call c, in flight before the step, runs in this step
C35_Continues(c) ==
    /\ c \in CallIds
    /\ calls[c].pc # "done"
    /\ calls'[c] # calls[c]

\* C35: reset abandons the intent: right after reset the state equals the
\* initial state, and no continuation of a buildIntent or executeIntent call
\* that was in flight when reset was called changes the state afterwards.
\* (The state is the initial one while a call is in flight only after a
\* reset: every call leaves step 'input' in its first statement.)
C35_ResetAbandonsCallsInFlight ==
    [][/\ Reset => state' = initialState
       /\ \A c \in CallIds :
            (state = initialState /\ C35_Continues(c)) => state' = state]_vars

(***************************************************************************)
(* The cache across failures and clears                                    *)
(***************************************************************************)
\* the fetchAllYields call c fails in this step
C36_FailsNow(c) ==
    /\ c \in 1..Len(fetches)
    /\ fetches[c].pc = "fetching"
    /\ fetches'[c].pc = "failed"

\* C36: a fetchAllYields call that fails leaves the cache exactly as it was:
\* no entry is written or refreshed and no partial list is stored, so a call
\* that then finds the entry absent or expired requests the sources again.
C36_FailureLeavesCache ==
    [][/\ \A c \in 1..MaxFetches : C36_FailsNow(c) => cache' = cache
       /\ (cache # Null) => fetches[Val(cache).writer].pc = "done"
       /\ (Len(fetches') = Len(fetches) + 1 /\ ~IsFresh(cache, now)) =>
             /\ Last(fetches').pc = "fetching"
             /\ Last(fetches').requests = FirstRequests]_vars

\* a call found a stale entry, failed, and the cache still holds that entry
C36_Witness ==
    \E c \in 1..Len(fetches) :
        /\ fetches[c].pc = "failed"
        /\ fetches[c].cached # Null
        /\ cache = fetches[c].cached
        /\ Val(cache).writer # c

\* C37: after clearCache has returned, no later fetchAllYields call returns
\* data that came from a source fetch started before the clear: the call
\* whose list a call returns started after every clear the returning call
\* started after.
C37_NoPreClearData ==
    \A d \in 1..Len(fetches) :
        fetches[d].pc = "done" =>
            fetches[fetches[d].entry].epoch >= fetches[d].epoch

\* C38: the whitelist is honoured by the intent pipeline: whenever buildIntent
\* reaches ready with preferences whose whitelistedProtocols is non-empty, the
\* protocolSlug of the chosen target is a member of that whitelist.
C38_ReadyTargetWhitelisted ==
    [][\A c \in CallIds :
         (/\ calls[c].kind = "build"
          /\ calls[c].pc = "compose"
          /\ calls'[c].pc = "done"
          /\ state'.step = "ready"
          /\ Val(calls[c].prefs).whitelistedProtocols # <<>>) =>
             Includes(Val(calls[c].prefs).whitelistedProtocols,
                      Val(calls[c].targetYield).protocolSlug)]_vars

(***************************************************************************)
(* serializePreferences and parsePreferences                               *)
(***************************************************************************)
\* parsed preferences with their two Numbers by their decimal digits
C39_WithDigits(prefs) ==
    [prefs EXCEPT !.maxSlippageBps = DecimalDigits(@),
                  !.minLiquidityUsd = DecimalDigits(@)]

C39_Applied == applied.fn = "serializePreferences"

\* the empty text for strategyFollow, or a minLiquidityUsd of 10^21 or more
C39_Outside(prefs) ==
    \/ prefs.strategyFollow = Some("")
    \/ Len(prefs.minLiquidityUsd) >= ExponentFromDigits

\* C39 as stated: for every valid UserPreferences p (lower-case chain names,
\* integer maxSlippageBps in 1..1000, integer minLiquidityUsd >= 0),
\* parsePreferences(serializePreferences(p)) equals p field by field.
C39_RoundTripAsStated ==
    C39_Applied => C39_WithDigits(Val(applied.result)) = applied.args[1]

\* C39: for every valid UserPreferences p (lower-case chain names, integer
\* maxSlippageBps in 1..1000, integer minLiquidityUsd >= 0 and below 10^21,
\* strategyFollow unset or a non-empty text),
\* parsePreferences(serializePreferences(p)) equals p field by field: an
\* explicit whitelist survives and an unset strategyFollow stays unset.
C39_RoundTrip ==
    (C39_Applied /\ ~C39_Outside(applied.args[1])) =>
        C39_WithDigits(Val(applied.result)) = applied.args[1]

\* an explicit whitelist that differs from the one of the risk tolerance, and
\* no strategyFollow, have gone through the round trip
C39_Witness ==
    /\ C39_Applied
    /\ ~C39_Outside(applied.args[1])
    /\ applied.args[1].whitelistedProtocols = <<"aave-v3", "pendle">>
    /\ applied.args[1].riskTolerance = "conservative"
    /\ applied.args[1].strategyFollow = Null
    /\ Val(applied.result).whitelistedProtocols = <<"aave-v3", "pendle">>
    /\ Val(applied.result).strategyFollow = Null

====
